---- MODULE Spec2Model ----
(***************************************************************************)
(* Derivative detection engine of metatree (src/src/lib/derivative-engine.ts) *)
(* and the batch passes that call it.  A JavaScript string is modelled as  *)
(* a sequence of one-character strings, so that every conversion of the    *)
(* engine (case folding, stripping, de-leeting, splitting, replacing) is   *)
(* computed character by character as the code computes it.               *)
(***************************************************************************)
EXTENDS Integers, Sequences, FiniteSets, TLC

\* ------------------------------------------------------------------ characters
LowerSeq ==
  <<"a", "b", "c", "d", "e", "f", "g", "h", "i", "j", "k", "l", "m",
    "n", "o", "p", "q", "r", "s", "t", "u", "v", "w", "x", "y", "z">>

UpperSeq ==
  <<"A", "B", "C", "D", "E", "F", "G", "H", "I", "J", "K", "L", "M",
    "N", "O", "P", "Q", "R", "S", "T", "U", "V", "W", "X", "Y", "Z">>

DigitSeq == <<"0", "1", "2", "3", "4", "5", "6", "7", "8", "9">>

\* The characters of the modelled strings in UTF-16 code order (the order of
\* Array.prototype.sort() on single characters).
CodeOrder ==
  <<" ", "!", "$", "-", ".">> \o DigitSeq \o <<"@">> \o UpperSeq \o <<"_">> \o LowerSeq

Range(f) == {f[i] : i \in DOMAIN f}

Lowers == Range(LowerSeq)
Uppers == Range(UpperSeq)
Digits == Range(DigitSeq)
Letters == Lowers \cup Uppers

\* /\s/ restricted to the modelled characters
Whitespace == {" "}

CharCode == [c \in Range(CodeOrder) |-> CHOOSE i \in DOMAIN CodeOrder : CodeOrder[i] = c]

LowerTable == [c \in Uppers |-> LowerSeq[CHOOSE i \in DOMAIN UpperSeq : UpperSeq[i] = c]]
UpperTable == [c \in Lowers |-> UpperSeq[CHOOSE i \in DOMAIN LowerSeq : LowerSeq[i] = c]]

\* String.prototype.toLowerCase / toUpperCase, one character; the Kelvin sign
\* U+212A is the one character outside A-Z whose lower case is a letter of a-z
LowerChar(c) == IF c \in Uppers THEN LowerTable[c] ELSE IF c = "U+212A" THEN "k" ELSE c
UpperChar(c) == IF c \in Lowers THEN UpperTable[c] ELSE c

toLowerCase(s) == [i \in DOMAIN s |-> LowerChar(s[i])]
toUpperCase(s) == [i \in DOMAIN s |-> UpperChar(s[i])]

\* ------------------------------------------------------------------ string helpers
Min2(a, b) == IF a <= b THEN a ELSE b
Max2(a, b) == IF a >= b THEN a ELSE b
Abs(n) == IF n < 0 THEN -n ELSE n

\* s.replace(/[^...]/g, ''): keep the characters of a class, in order
Keep(s, class) == SelectSeq(s, LAMBDA c : c \in class)

\* String.prototype.slice(from0, to0) with 0-based, end-exclusive indices
Slice(s, from0, to0) == SubSeq(s, from0 + 1, Min2(to0, Len(s)))

\* String.prototype.includes
Includes(s, sub) ==
  \/ sub = <<>>
  \/ \E i \in 1..(Len(s) - Len(sub) + 1) :
        s[i] = sub[1] /\ SubSeq(s, i, i + Len(sub) - 1) = sub

StartsWith(s, sub) == Len(sub) <= Len(s) /\ SubSeq(s, 1, Len(sub)) = sub
EndsWith(s, sub) == Len(sub) <= Len(s) /\ SubSeq(s, Len(s) - Len(sub) + 1, Len(s)) = sub

\* Array.prototype.includes on a list of strings
Contains(list, x) == \E i \in DOMAIN list : list[i] = x

\* s.replace(new RegExp(pat, 'g'), rep) for a literal pattern: every
\* non-overlapping occurrence, scanning left to right
RECURSIVE ReplaceAll(_, _, _)
ReplaceAll(s, pat, rep) ==
  IF s = <<>> THEN <<>>
  ELSE IF StartsWith(s, pat)
       THEN rep \o ReplaceAll(SubSeq(s, Len(pat) + 1, Len(s)), pat, rep)
       ELSE <<Head(s)>> \o ReplaceAll(Tail(s), pat, rep)

\* s.replace(/pat/, rep) without the g flag: the first occurrence only
RECURSIVE ReplaceFirst(_, _, _)
ReplaceFirst(s, pat, rep) ==
  IF s = <<>> THEN <<>>
  ELSE IF StartsWith(s, pat)
       THEN rep \o SubSeq(s, Len(pat) + 1, Len(s))
       ELSE <<Head(s)>> \o ReplaceFirst(Tail(s), pat, rep)

\* s.split(sepClass+) : the maximal pieces between runs of separator characters,
\* including the empty first/last piece JavaScript produces at the ends
RECURSIVE SplitOn(_, _, _)
SplitOn(s, seps, cur) ==
  IF s = <<>> THEN <<cur>>
  ELSE IF Head(s) \in seps
       THEN IF Len(s) > 1 /\ s[2] \in seps
            THEN SplitOn(Tail(s), seps, cur)
            ELSE <<cur>> \o SplitOn(Tail(s), seps, <<>>)
       ELSE SplitOn(Tail(s), seps, Append(cur, Head(s)))

\* ------------------------------------------------------------------ utilities
\* normalize with the replacement made once, as without the g flag: only the
\* first character outside [a-z0-9] is removed
normalizeFirstOnly(str) ==
  LET low == toLowerCase(str)
      bad == {i \in DOMAIN low : low[i] \notin Lowers \cup Digits}
  IN IF bad = {} THEN low
     ELSE LET i == CHOOSE k \in bad : \A j \in bad : k <= j
          IN SubSeq(low, 1, i - 1) \o SubSeq(low, i + 1, Len(low))

\* Normalize text: lowercase, remove special chars
normalize(str) == Keep(toLowerCase(str), Lowers \cup Digits)

\* The characters the . of a regular expression does not match: line feed,
\* carriage return, line separator and paragraph separator
LineTerminators == {"U+000A", "U+000D", "U+2028", "U+2029"}

\* Remove repeated characters: /(.)\1{2,}/g -> '$1$1'.  A run of three or more
\* equal characters that . matches is replaced by two of them: the third and
\* later characters of a run are dropped.
RECURSIVE DerepeatFrom(_, _)
DerepeatFrom(s, i) ==
  IF i > Len(s) THEN <<>>
  ELSE IF i >= 3 /\ s[i] = s[i - 1] /\ s[i] = s[i - 2] /\ s[i] \notin LineTerminators
       THEN DerepeatFrom(s, i + 1)
       ELSE <<s[i]>> \o DerepeatFrom(s, i + 1)

derepeat(str) == DerepeatFrom(str, 1)

leetMap ==
  [c \in {"0", "1", "3", "4", "5", "7", "8", "@", "$", "!"} |->
     CASE c = "0" -> "o" [] c = "1" -> "i" [] c = "3" -> "e" [] c = "4" -> "a"
       [] c = "5" -> "s" [] c = "7" -> "t" [] c = "8" -> "b" [] c = "@" -> "a"
       [] c = "$" -> "s" [] c = "!" -> "i"]

\* Leet speak conversion
deleet(str) == [i \in DOMAIN str |-> IF str[i] \in DOMAIN leetMap THEN leetMap[str[i]] ELSE str[i]]

\* .replace(/([a-z])([A-Z])/g, '$1 $2'): a space between a lower-case letter
\* and the upper-case letter that follows it
RECURSIVE CamelSpaces(_, _)
CamelSpaces(s, i) ==
  IF i > Len(s) THEN <<>>
  ELSE IF i < Len(s) /\ s[i] \in Lowers /\ s[i + 1] \in Uppers
       THEN <<s[i], " ">> \o CamelSpaces(s, i + 1)
       ELSE <<s[i]>> \o CamelSpaces(s, i + 1)

\* .replace(/([A-Z]+)([A-Z][a-z])/g, '$1 $2'): a space before the last letter of
\* an upper-case run of two or more that is followed by a lower-case letter
RECURSIVE AcronymSpaces(_, _)
AcronymSpaces(s, i) ==
  IF i > Len(s) THEN <<>>
  ELSE IF i >= 2 /\ i < Len(s) /\ s[i - 1] \in Uppers /\ s[i] \in Uppers /\ s[i + 1] \in Lowers
       THEN <<" ", s[i]>> \o AcronymSpaces(s, i + 1)
       ELSE <<s[i]>> \o AcronymSpaces(s, i + 1)

\* Split camelCase/compound
splitCompound(str) ==
  LET spaced == AcronymSpaces(CamelSpaces(str, 1), 1)
      pieces == SplitOn(toLowerCase(spaced), Whitespace \cup {"-", "_"}, <<>>)
  IN SelectSeq(pieces, LAMBDA w : Len(w) > 0)

\* Generate n-grams
ngrams(str, n) ==
  LET s == normalize(str)
  IN [k \in 1..Max2(0, Len(s) - n + 1) |-> SubSeq(s, k, k + n - 1)]

Min3(a, b, c) == Min2(a, Min2(b, c))

\* One cell of the matrix with matrix[i][j-1] + 2 in place of matrix[i][j-1] + 1
LevCellCostlyStep(same, diagonal, left, up) ==
  IF same THEN diagonal ELSE Min3(diagonal + 1, left + 2, up + 1)

\* One cell of the matrix without the substitution matrix[i-1][j-1] + 1
LevCellNoSubstitution(same, diagonal, left, up) ==
  IF same THEN diagonal ELSE Min2(left + 1, up + 1)

\* matrix[i][j] from matrix[i-1][j-1], matrix[i][j-1] and matrix[i-1][j]; same
\* is b.charAt(i-1) === a.charAt(j-1)
LevCell(same, diagonal, left, up) ==
  IF same THEN diagonal ELSE Min3(diagonal + 1, left + 1, up + 1)

\* One row of the matrix filled up to column hi: cur holds the cells computed
\* so far, cur[j + 1] being matrix[i][j], and prev is the row before.  The loop
\* over j is evaluated by halves.
RECURSIVE LevCells(_, _, _, _, _)
LevCells(cur, prev, a, bi, hi) ==
  LET j == Len(cur)
  IN IF j > hi THEN cur
     ELSE IF j = hi
          THEN Append(cur, LevCell(bi = a[j], prev[j], cur[j], prev[j + 1]))
          ELSE LevCells(LevCells(cur, prev, a, bi, (j + hi) \div 2), prev, a, bi, hi)

\* The matrix filled up to row hi: matrix[i + 1] is row i.  The loop over i is
\* evaluated by halves.
RECURSIVE LevRows(_, _, _, _)
LevRows(matrix, a, b, hi) ==
  LET i == Len(matrix)
  IN IF i > hi THEN matrix
     ELSE IF i = hi
          THEN Append(matrix, LevCells(<<i>>, matrix[i], a, b[i], Len(a)))
          ELSE LevRows(LevRows(matrix, a, b, (i + hi) \div 2), a, b, hi)

\* Levenshtein distance
levenshtein(a, b) ==
  LevRows(<<[j \in 1..(Len(a) + 1) |-> j - 1]>>, a, b, Len(b))[Len(b) + 1][Len(a) + 1]

PREFIXES ==
  <<
    <<"b", "a", "b", "y">>, <<"m", "i", "n", "i">>, <<"m", "i", "c", "r", "o">>,
    <<"n", "a", "n", "o">>, <<"m", "e", "g", "a">>, <<"g", "i", "g", "a">>,
    <<"u", "l", "t", "r", "a">>, <<"s", "u", "p", "e", "r">>, <<"h", "y", "p", "e", "r">>,
    <<"k", "i", "n", "g">>, <<"q", "u", "e", "e", "n">>, <<"p", "r", "i", "n", "c", "e">>,
    <<"p", "r", "i", "n", "c", "e", "s", "s">>, <<"l", "o", "r", "d">>, <<"l", "a", "d", "y">>,
    <<"s", "i", "r">>, <<"m", "r">>, <<"m", "r", "s">>, <<"d", "r">>, <<"c", "h", "i", "e", "f">>,
    <<"s", "o", "n">>, <<"d", "a", "u", "g", "h", "t", "e", "r">>, <<"w", "i", "f", "e">>,
    <<"m", "o", "m">>, <<"d", "a", "d">>, <<"m", "o", "t", "h", "e", "r">>,
    <<"f", "a", "t", "h", "e", "r">>, <<"b", "r", "o">>, <<"s", "i", "s">>,
    <<"l", "i", "t", "t", "l", "e">>, <<"b", "i", "g">>, <<"f", "a", "t">>, <<"s", "l", "i", "m">>,
    <<"r", "i", "c", "h">>, <<"p", "o", "o", "r">>, <<"h", "a", "p", "p", "y">>, <<"s", "a", "d">>,
    <<"a", "n", "g", "r", "y">>, <<"m", "a", "d">>, <<"d", "a", "r", "k">>, <<"e", "v", "i", "l">>,
    <<"g", "o", "o", "d">>, <<"h", "o", "l", "y">>, <<"s", "a", "i", "n", "t">>,
    <<"d", "e", "m", "o", "n">>, <<"g", "o", "d">>, <<"d", "e", "v", "i", "l">>, <<"n", "e", "w">>,
    <<"o", "l", "d">>, <<"o", "g">>, <<"r", "e", "a", "l">>, <<"t", "r", "u", "e">>,
    <<"o", "r", "i", "g", "i", "n", "a", "l">>, <<"f", "a", "k", "e">>,
    <<"b", "a", "s", "e", "d">>, <<"r", "a", "r", "e">>, <<"m", "e", "t", "a">>, <<"s", "o", "l">>,
    <<"e", "t", "h">>, <<"b", "a", "s", "e">>, <<"o", "n">>, <<"t", "h", "e">>, <<"e", "l">>,
    <<"l", "a">>, <<"l", "e">>
  >>

SUFFIXES ==
  <<
    <<"2">>, <<"2", "0">>, <<"2", "0", "2", "4">>, <<"2", "0", "2", "5">>, <<"2", "0", "2", "6">>,
    <<"3">>, <<"i", "i">>, <<"i", "i", "i">>, <<"i", "v">>, <<"v">>, <<"j", "r">>, <<"s", "r">>,
    <<"p", "r", "o">>, <<"m", "a", "x">>, <<"p", "l", "u", "s">>, <<"l", "i", "t", "e">>,
    <<"u", "l", "t", "r", "a">>, <<"p", "r", "i", "m", "e">>, <<"g", "o", "l", "d">>,
    <<"d", "i", "a", "m", "o", "n", "d">>, <<"p", "l", "a", "t", "i", "n", "u", "m">>,
    <<"i", "n", "u">>, <<"w", "i", "f">>, <<"h", "a", "t">>, <<"c", "o", "i", "n">>,
    <<"t", "o", "k", "e", "n">>, <<"m", "e", "m", "e">>, <<"f", "i">>, <<"s", "w", "a", "p">>,
    <<"d", "e", "x">>, <<"a", "i">>, <<"b", "o", "t">>, <<"a", "g", "e", "n", "t">>,
    <<"g", "p", "t">>, <<"x">>, <<"z">>, <<"a", "r", "m", "y">>, <<"g", "a", "n", "g">>,
    <<"s", "q", "u", "a", "d">>, <<"c", "l", "u", "b">>, <<"c", "u", "l", "t">>,
    <<"m", "a", "x", "i">>, <<"f", "a", "m">>, <<"b", "r", "o", "s">>, <<"m", "o", "o", "n">>,
    <<"p", "u", "m", "p">>, <<"r", "u", "n">>, <<"r", "u", "n", "n", "e", "r">>,
    <<"c", "h", "a", "i", "n">>, <<"v", "e", "r", "s", "e">>, <<"w", "o", "r", "l", "d">>,
    <<"l", "a", "n", "d">>, <<"c", "l", "a", "s", "s", "i", "c">>, <<"r", "e", "m", "i", "x">>,
    <<"r", "e", "b", "o", "r", "n">>, <<"r", "e", "t", "u", "r", "n", "s">>,
    <<"s", "t", "r", "i", "k", "e", "s">>, <<"r", "i", "s", "i", "n", "g">>,
    <<"s", "a", "g", "a">>, <<"s", "o", "l">>, <<"e", "t", "h">>, <<"b", "a", "s", "e">>,
    <<"o", "n">>, <<"o", "n", "c", "h", "a", "i", "n">>
  >>

LETTER_SWAPS ==
  <<
    <<<<"o">>, <<"0">>>>, <<<<"i">>, <<"1">>>>, <<<<"e">>, <<"3">>>>, <<<<"a">>, <<"4">>>>,
    <<<<"s">>, <<"5">>>>, <<<<"b">>, <<"8">>>>, <<<<"o">>, <<"u">>>>, <<<<"i">>, <<"e">>>>,
    <<<<"a">>, <<"e">>>>, <<<<"c">>, <<"k">>>>, <<<<"s">>, <<"z">>>>, <<<<"y">>, <<"i">>>>,
    <<<<"p", "h">>, <<"f">>>>, <<<<"c", "k">>, <<"k">>>>, <<<<"e", "e">>, <<"i">>>>,
    <<<<"o", "o">>, <<"u">>>>, <<<<"e", "r">>, <<"a">>>>, <<<<"o", "r">>, <<"a">>>>,
    <<<<"x">>, <<"k", "s">>>>, <<<<"q", "u">>, <<"k", "w">>>>,
    <<<<"t", "i", "o", "n">>, <<"s", "h", "u", "n">>>>, <<<<"g", "h", "t">>, <<"t">>>>
  >>

THEME_ENTITIES ==
  <<
    [theme |-> "pepe", keywords |-> <<
      <<"p", "e", "p", "e">>, <<"p", "e", "p">>, <<"f", "r", "o", "g">>, <<"k", "e", "k">>,
      <<"r", "a", "r", "e">>, <<"s", "m", "u", "g">>, <<"f", "e", "e", "l", "s">>,
      <<"a", "p", "u">>, <<"p", "e", "e", "p", "o">>, <<"p", "e", "p", "e", "g", "a">>,
      <<"r", "i", "b", "b", "i", "t">>, <<"t", "o", "a", "d">>, <<"h", "o", "p", "p", "y">>,
      <<"f", "r", "o", "g", "g", "y">>, <<"k", "e", "k", "i", "u", "s">>, <<"g", "r", "o", "k">>,
      <<"g", "r", "o", "y", "p", "e", "r">>, <<"h", "o", "n", "k">>, <<"c", "l", "o", "w", "n">>,
      <<"h", "o", "n", "k", "l", "e", "r">> >>],
    [theme |-> "doge", keywords |-> <<
      <<"d", "o", "g", "e">>, <<"s", "h", "i", "b", "a">>, <<"s", "h", "i", "b">>,
      <<"i", "n", "u">>, <<"k", "a", "b", "o", "s", "u">>, <<"c", "h", "e", "e", "m", "s">>,
      <<"b", "o", "n", "k">>, <<"d", "o", "g", "g", "y">>, <<"s", "h", "i", "b", "u">>,
      <<"w", "o", "o", "f">>, <<"p", "u", "p", "p", "y">>, <<"p", "u", "p", "p", "e", "r">>,
      <<"d", "o", "g", "g", "o">>, <<"f", "l", "o", "k", "i">>, <<"a", "k", "i", "t", "a">>,
      <<"c", "o", "r", "g", "i">>, <<"h", "u", "s", "k", "y">>, <<"d", "i", "n", "g", "o">>,
      <<"h", "a", "c", "h", "i", "k", "o">>, <<"s", "n", "o", "o", "p">> >>],
    [theme |-> "cat", keywords |-> <<
      <<"c", "a", "t">>, <<"k", "i", "t", "t", "y">>, <<"k", "i", "t", "t", "e", "n">>,
      <<"m", "e", "o", "w">>, <<"p", "o", "p", "c", "a", "t">>, <<"m", "o", "g">>,
      <<"m", "i", "c", "h", "i">>, <<"n", "y", "a", "n">>, <<"c", "a", "t", "t", "o">>,
      <<"g", "a", "t", "o">>, <<"p", "u", "s", "s", "y">>, <<"f", "e", "l", "i", "n", "e">>,
      <<"t", "a", "b", "b", "y">>, <<"w", "h", "i", "s", "k", "e", "r", "s">>,
      <<"p", "a", "w", "s">>, <<"g", "r", "u", "m", "p", "y">>,
      <<"k", "e", "y", "b", "o", "a", "r", "d">>, <<"s", "i", "m", "o", "n">>,
      <<"g", "a", "r", "f", "i", "e", "l", "d">>, <<"f", "e", "l", "i", "x">> >>],
    [theme |-> "penguin", keywords |-> <<
      <<"p", "e", "n", "g", "u", "i", "n">>, <<"p", "e", "n", "g", "u">>,
      <<"p", "i", "n", "g", "u">>, <<"p", "u", "d", "g", "y">>, <<"t", "u", "x">>,
      <<"l", "i", "n", "u", "x">>, <<"w", "a", "d", "d", "l", "e">>,
      <<"a", "r", "c", "t", "i", "c">>, <<"e", "m", "p", "e", "r", "o", "r">>,
      <<"a", "d", "e", "l", "i", "e">>, <<"g", "e", "n", "t", "o", "o">>, <<"c", "l", "u", "b">>,
      <<"h", "a", "p", "p", "y", " ", "f", "e", "e", "t">> >>],
    [theme |-> "monkey", keywords |-> <<
      <<"m", "o", "n", "k", "e", "y">>, <<"a", "p", "e">>, <<"c", "h", "i", "m", "p">>,
      <<"g", "o", "r", "i", "l", "l", "a">>, <<"o", "r", "a", "n", "g", "u", "t", "a", "n">>,
      <<"p", "u", "n", "c", "h">>, <<"b", "o", "r", "e", "d">>, <<"b", "a", "y", "c">>,
      <<"p", "r", "i", "m", "a", "t", "e">>, <<"b", "a", "n", "a", "n", "a">>,
      <<"j", "u", "n", "g", "l", "e">>, <<"k", "o", "n", "g">>,
      <<"h", "a", "r", "a", "m", "b", "e">>, <<"b", "a", "b", "o", "o", "n">>,
      <<"m", "a", "c", "a", "q", "u", "e">>, <<"g", "i", "b", "b", "o", "n">>,
      <<"s", "i", "m", "i", "a", "n">> >>],
    [theme |-> "trump", keywords |-> <<
      <<"t", "r", "u", "m", "p">>, <<"d", "o", "n", "a", "l", "d">>, <<"m", "a", "g", "a">>,
      <<"p", "o", "t", "u", "s">>, <<"4", "7">>, <<"m", "e", "l", "a", "n", "i", "a">>,
      <<"b", "a", "r", "r", "o", "n">>, <<"i", "v", "a", "n", "k", "a">>,
      <<"d", "o", "n", "a", "l", "d", "o">>, <<"m", "a", "n", "g", "o">>,
      <<"c", "h", "e", "e", "t", "o">>, <<"b", "i", "g", "l", "y">>, <<"y", "u", "g", "e">>,
      <<"c", "o", "v", "f", "e", "f", "e">>, <<"w", "i", "n", "n", "i", "n", "g">>,
      <<"d", "r", "u", "m", "p", "f">>, <<"e", "m", "p", "e", "r", "o", "r">>, <<"d", "o", "n">>,
      <<"d", "j", "t">>, <<"4", "5">>, <<"r", "e", "p", "u", "b", "l", "i", "c", "a", "n">>,
      <<"g", "o", "p">> >>],
    [theme |-> "elon", keywords |-> <<
      <<"e", "l", "o", "n">>, <<"m", "u", "s", "k">>, <<"t", "e", "s", "l", "a">>,
      <<"s", "p", "a", "c", "e", "x">>, <<"x">>, <<"m", "a", "r", "s">>,
      <<"s", "t", "a", "r", "s", "h", "i", "p">>, <<"e", "l", "u", "n">>,
      <<"m", "u", "U+0441", "U+043A">>, <<"d", "o", "j", "o">>,
      <<"n", "e", "u", "r", "a", "l", "i", "n", "k">>, <<"b", "o", "r", "i", "n", "g">>,
      <<"h", "y", "p", "e", "r", "l", "o", "o", "p">>, <<"c", "y", "b", "e", "r">>,
      <<"t", "r", "u", "c", "k">>, <<"r", "o", "a", "d", "s", "t", "e", "r">>,
      <<"r", "o", "c", "k", "e", "t">>, <<"t", "e", "c", "h", "n", "o", "k", "i", "n", "g">>,
      <<"d", "o", "g", "f", "a", "t", "h", "e", "r">> >>],
    [theme |-> "ai", keywords |-> <<
      <<"a", "i">>, <<"g", "p", "t">>, <<"a", "g", "e", "n", "t">>, <<"b", "o", "t">>,
      <<"n", "e", "u", "r", "a", "l">>, <<"o", "p", "e", "n", "a", "i">>,
      <<"a", "n", "t", "h", "r", "o", "p", "i", "c">>, <<"l", "l", "m">>,
      <<"c", "l", "a", "u", "d", "e">>, <<"c", "h", "a", "t", "g", "p", "t">>,
      <<"g", "e", "m", "i", "n", "i">>, <<"b", "a", "r", "d">>,
      <<"c", "o", "p", "i", "l", "o", "t">>, <<"m", "i", "d", "j", "o", "u", "r", "n", "e", "y">>,
      <<"s", "t", "a", "b", "l", "e">>, <<"d", "i", "f", "f", "u", "s", "i", "o", "n">>,
      <<"m", "a", "c", "h", "i", "n", "e">>, <<"l", "e", "a", "r", "n", "i", "n", "g">>,
      <<"r", "o", "b", "o", "t">>, <<"c", "y", "b", "o", "r", "g">>,
      <<"s", "e", "n", "t", "i", "e", "n", "t">>, <<"a", "g", "i">>,
      <<"s", "i", "n", "g", "u", "l", "a", "r", "i", "t", "y">>, <<"s", "k", "y", "n", "e", "t">>,
      <<"t", "e", "r", "m", "i", "n", "a", "t", "o", "r">> >>],
    [theme |-> "goat", keywords |-> <<
      <<"g", "o", "a", "t">>, <<"g", "o", "a", "t", "s", "e">>, <<"b", "i", "l", "l", "y">>,
      <<"r", "a", "m">>, <<"g", "r", "e", "a", "t", "e", "s", "t">>,
      <<"c", "a", "p", "r", "i", "c", "o", "r", "n">>, <<"i", "b", "e", "x">>,
      <<"m", "o", "u", "n", "t", "a", "i", "n">>, <<"h", "o", "r", "n", "s">>,
      <<"b", "e", "a", "r", "d">>, <<"b", "l", "e", "a", "t">> >>],
    [theme |-> "bird", keywords |-> <<
      <<"b", "i", "r", "d">>, <<"t", "w", "e", "e", "t">>, <<"t", "w", "i", "t", "t", "e", "r">>,
      <<"e", "a", "g", "l", "e">>, <<"h", "a", "w", "k">>, <<"o", "w", "l">>,
      <<"p", "a", "r", "r", "o", "t">>, <<"c", "r", "o", "w">>, <<"r", "a", "v", "e", "n">>,
      <<"p", "h", "o", "e", "n", "i", "x">>, <<"d", "u", "c", "k">>,
      <<"c", "h", "i", "c", "k", "e", "n">>, <<"r", "o", "o", "s", "t", "e", "r">>,
      <<"p", "i", "g", "e", "o", "n">>, <<"d", "o", "v", "e">>, <<"f", "a", "l", "c", "o", "n">>,
      <<"v", "u", "l", "t", "u", "r", "e">>, <<"c", "o", "n", "d", "o", "r">>,
      <<"f", "l", "a", "m", "i", "n", "g", "o">>, <<"t", "o", "u", "c", "a", "n">>,
      <<"p", "e", "l", "i", "c", "a", "n">> >>],
    [theme |-> "bear", keywords |-> <<
      <<"b", "e", "a", "r">>, <<"t", "e", "d", "d", "y">>, <<"p", "a", "n", "d", "a">>,
      <<"g", "r", "i", "z", "z", "l", "y">>, <<"p", "o", "l", "a", "r">>,
      <<"k", "o", "a", "l", "a">>, <<"b", "e", "a", "r", "i", "s", "h">>, <<"c", "u", "b">>,
      <<"h", "i", "b", "e", "r", "n", "a", "t", "i", "o", "n">>, <<"h", "o", "n", "e", "y">>,
      <<"k", "o", "d", "i", "a", "k">>, <<"b", "l", "a", "c", "k">>, <<"b", "r", "o", "w", "n">>,
      <<"s", "p", "i", "r", "i", "t">> >>],
    [theme |-> "bull", keywords |-> <<
      <<"b", "u", "l", "l">>, <<"t", "o", "r", "o">>, <<"o", "x">>,
      <<"b", "u", "f", "f", "a", "l", "o">>, <<"b", "i", "s", "o", "n">>,
      <<"b", "u", "l", "l", "i", "s", "h">>, <<"m", "a", "t", "a", "d", "o", "r">>,
      <<"r", "o", "d", "e", "o">>, <<"h", "o", "r", "n", "s">>, <<"c", "h", "a", "r", "g", "e">>,
      <<"s", "t", "a", "m", "p", "e", "d", "e">>, <<"m", "i", "n", "o", "t", "a", "u", "r">>,
      <<"b", "r", "a", "h", "m", "a">>, <<"a", "n", "g", "u", "s">> >>],
    [theme |-> "hippo", keywords |-> <<
      <<"h", "i", "p", "p", "o">>, <<"m", "o", "o", "d", "e", "n", "g">>,
      <<"m", "o", "o", "d", "a", "n", "g">>, <<"p", "y", "g", "m", "y">>,
      <<"h", "i", "p", "p", "o", "p", "o", "t", "a", "m", "u", "s">>, <<"r", "i", "v", "e", "r">>,
      <<"h", "o", "r", "s", "e">>, <<"h", "u", "n", "g", "r", "y">>, <<"c", "h", "o", "m", "p">>,
      <<"c", "h", "o", "n", "k">>, <<"t", "h", "i", "c", "c">> >>],
    [theme |-> "pnut", keywords |-> <<
      <<"p", "n", "u", "t">>, <<"p", "e", "a", "n", "u", "t">>,
      <<"s", "q", "u", "i", "r", "r", "e", "l">>, <<"n", "u", "t">>, <<"n", "u", "t", "s">>,
      <<"a", "c", "o", "r", "n">>, <<"c", "h", "i", "p", "m", "u", "n", "k">>,
      <<"n", "u", "t", "t", "y">>, <<"c", "a", "s", "h", "e", "w">>,
      <<"a", "l", "m", "o", "n", "d">>, <<"w", "a", "l", "n", "u", "t">>,
      <<"h", "a", "z", "e", "l">> >>],
    [theme |-> "wif", keywords |-> <<
      <<"w", "i", "f">>, <<"h", "a", "t">>, <<"d", "o", "g", "w", "i", "f", "h", "a", "t">>,
      <<"c", "a", "t", "w", "i", "f">>, <<"w", "i", "t", "h">>,
      <<"w", "e", "a", "r", "i", "n", "g">>, <<"h", "e", "l", "m", "e", "t">>, <<"c", "a", "p">>,
      <<"b", "e", "a", "n", "i", "e">>, <<"f", "e", "d", "o", "r", "a">>,
      <<"t", "o", "p", "h", "a", "t">>, <<"s", "o", "m", "b", "r", "e", "r", "o">> >>],
    [theme |-> "wojak", keywords |-> <<
      <<"w", "o", "j", "a", "k">>, <<"w", "o", "j", "a", "c", "k">>,
      <<"s", "o", "y", "j", "a", "k">>, <<"f", "e", "e", "l", "s">>,
      <<"b", "r", "a", "i", "n", "l", "e", "t">>, <<"p", "i", "n", "k">>,
      <<"d", "o", "o", "m", "e", "r">>, <<"b", "l", "o", "o", "m", "e", "r">>,
      <<"z", "o", "o", "m", "e", "r">>, <<"b", "o", "o", "m", "e", "r">>,
      <<"c", "o", "o", "m", "e", "r">>, <<"g", "l", "o", "w">>, <<"n", "p", "c">>,
      <<"c", "h", "a", "d">>, <<"v", "i", "r", "g", "i", "n">>,
      <<"g", "i", "g", "a", "c", "h", "a", "d">>, <<"s", "i", "g", "m", "a">>,
      <<"a", "l", "p", "h", "a">>, <<"b", "e", "t", "a">>, <<"t", "r", "a", "d">>,
      <<"b", "a", "s", "e", "d">>, <<"r", "e", "d", "p", "i", "l", "l">> >>],
    [theme |-> "moon", keywords |-> <<
      <<"m", "o", "o", "n">>, <<"l", "u", "n", "a", "r">>, <<"m", "o", "o", "n", "b", "o", "y">>,
      <<"m", "o", "o", "n", "i", "n", "g">>, <<"t", "o", "m", "o", "o", "n">>,
      <<"a", "p", "o", "l", "l", "o">>, <<"c", "r", "a", "t", "e", "r">>, <<"t", "i", "d", "e">>,
      <<"w", "o", "l", "f">>, <<"h", "a", "r", "v", "e", "s", "t">>,
      <<"e", "c", "l", "i", "p", "s", "e">>, <<"f", "u", "l", "l", "m", "o", "o", "n">>,
      <<"m", "o", "o", "n", "s", "h", "o", "t">>, <<"m", "o", "o", "n", "w", "a", "l", "k">> >>],
    [theme |-> "alien", keywords |-> <<
      <<"a", "l", "i", "e", "n">>, <<"a", "l", "i", "e", "n", "s">>, <<"u", "f", "o">>,
      <<"e", "x", "t", "r", "a", "t", "e", "r", "r", "e", "s", "t", "r", "i", "a", "l">>,
      <<"e", "t">>, <<"a", "r", "e", "a", "5", "1">>, <<"r", "o", "s", "w", "e", "l", "l">>,
      <<"g", "r", "e", "y">>, <<"g", "r", "e", "y", "s">>, <<"g", "r", "a", "y", "s">>,
      <<"a", "b", "d", "u", "c", "t", "i", "o", "n">>,
      <<"s", "p", "a", "c", "e", "s", "h", "i", "p">>, <<"m", "a", "r", "t", "i", "a", "n">>,
      <<"x", "f", "i", "l", "e", "s">>, <<"c", "o", "n", "t", "a", "c", "t">>,
      <<"d", "i", "s", "c", "l", "o", "s", "u", "r", "e">>, <<"s", "e", "t", "i">>,
      <<"f", "i", "r", "s", "t", "c", "o", "n", "t", "a", "c", "t">>,
      <<"i", "n", "v", "a", "s", "i", "o", "n">>, <<"p", "r", "o", "b", "e">>,
      <<"m", "o", "t", "h", "e", "r", "s", "h", "i", "p">>,
      <<"r", "e", "p", "t", "i", "l", "i", "a", "n">>,
      <<"p", "l", "e", "i", "a", "d", "i", "a", "n">>, <<"n", "o", "r", "d", "i", "c">>,
      <<"a", "n", "n", "u", "n", "a", "k", "i">>, <<"n", "i", "b", "i", "r", "u">> >>],
    [theme |-> "anime", keywords |-> <<
      <<"a", "n", "i", "m", "e">>, <<"m", "a", "n", "g", "a">>, <<"w", "a", "i", "f", "u">>,
      <<"s", "e", "n", "p", "a", "i">>, <<"k", "a", "w", "a", "i", "i">>,
      <<"o", "t", "a", "k", "u">>, <<"w", "e", "e", "b">>, <<"n", "e", "k", "o">>,
      <<"c", "h", "a", "n">>, <<"k", "u", "n">>, <<"s", "a", "n">>, <<"s", "a", "m", "a">>,
      <<"d", "e", "s", "u">>, <<"b", "a", "k", "a">>, <<"s", "u", "g", "o", "i">>,
      <<"n", "a", "r", "u", "t", "o">>, <<"g", "o", "k", "u">>, <<"h", "e", "n", "t", "a", "i">>,
      <<"l", "o", "l", "i">>, <<"c", "h", "i", "b", "i">> >>],
    [theme |-> "china", keywords |-> <<
      <<"c", "h", "i", "n", "a">>, <<"c", "h", "i", "n", "e", "s", "e">>,
      <<"d", "r", "a", "g", "o", "n">>, <<"p", "a", "n", "d", "a">>,
      <<"b", "a", "m", "b", "o", "o">>, <<"j", "a", "d", "e">>, <<"k", "u", "n", "g">>,
      <<"w", "u", "s", "h", "u">>, <<"s", "h", "a", "o", "l", "i", "n">>, <<"y", "i", "n">>,
      <<"y", "a", "n", "g">>, <<"d", "y", "n", "a", "s", "t", "y">>,
      <<"e", "m", "p", "e", "r", "o", "r">>, <<"m", "a", "n", "d", "a", "r", "i", "n">>,
      <<"b", "e", "i", "j", "i", "n", "g">>, <<"s", "h", "a", "n", "g", "h", "a", "i">>,
      <<"x", "i">>, <<"c", "c", "p">>, <<"y", "u", "a", "n">>, <<"r", "m", "b">> >>],
    [theme |-> "korea", keywords |-> <<
      <<"k", "o", "r", "e", "a">>, <<"k", "o", "r", "e", "a", "n">>,
      <<"k", "i", "m", "c", "h", "i">>, <<"k", "p", "o", "p">>, <<"s", "e", "o", "u", "l">>,
      <<"g", "a", "n", "g", "n", "a", "m">>, <<"o", "p", "p", "a">>, <<"n", "o", "o", "n", "a">>,
      <<"h", "y", "u", "n", "g">>, <<"a", "e", "g", "y", "o">>, <<"h", "a", "l", "l", "y", "u">>,
      <<"b", "i", "b", "i", "m", "b", "a", "p">>, <<"s", "o", "j", "u">>,
      <<"h", "a", "n", "b", "o", "k">> >>],
    [theme |-> "food", keywords |-> <<
      <<"f", "o", "o", "d">>, <<"b", "u", "r", "g", "e", "r">>, <<"p", "i", "z", "z", "a">>,
      <<"t", "a", "c", "o">>, <<"s", "u", "s", "h", "i">>, <<"r", "a", "m", "e", "n">>,
      <<"n", "o", "o", "d", "l", "e">>, <<"r", "i", "c", "e">>, <<"b", "r", "e", "a", "d">>,
      <<"c", "h", "e", "e", "s", "e">>, <<"b", "a", "c", "o", "n">>, <<"e", "g", "g">>,
      <<"c", "h", "i", "c", "k", "e", "n">>, <<"b", "e", "e", "f">>, <<"p", "o", "r", "k">>,
      <<"f", "i", "s", "h">>, <<"s", "h", "r", "i", "m", "p">>,
      <<"l", "o", "b", "s", "t", "e", "r">>, <<"c", "r", "a", "b">>, <<"s", "t", "e", "a", "k">>,
      <<"f", "r", "i", "e", "s">>, <<"h", "o", "t", "d", "o", "g">>,
      <<"s", "a", "n", "d", "w", "i", "c", "h">>, <<"s", "o", "u", "p">>,
      <<"s", "a", "l", "a", "d">> >>],
    [theme |-> "drink", keywords |-> <<
      <<"c", "o", "f", "f", "e", "e">>, <<"t", "e", "a">>, <<"b", "e", "e", "r">>,
      <<"w", "i", "n", "e">>, <<"w", "h", "i", "s", "k", "e", "y">>, <<"v", "o", "d", "k", "a">>,
      <<"r", "u", "m">>, <<"t", "e", "q", "u", "i", "l", "a">>, <<"s", "a", "k", "e">>,
      <<"c", "h", "a", "m", "p", "a", "g", "n", "e">>, <<"c", "o", "c", "k", "t", "a", "i", "l">>,
      <<"j", "u", "i", "c", "e">>, <<"s", "o", "d", "a">>, <<"c", "o", "l", "a">>,
      <<"p", "e", "p", "s", "i">>, <<"c", "o", "k", "e">>, <<"w", "a", "t", "e", "r">>,
      <<"m", "i", "l", "k">>, <<"b", "o", "b", "a">>, <<"b", "u", "b", "b", "l", "e">> >>],
    [theme |-> "drugs", keywords |-> <<
      <<"w", "e", "e", "d">>, <<"c", "a", "n", "n", "a", "b", "i", "s">>,
      <<"m", "a", "r", "i", "j", "u", "a", "n", "a">>, <<"4", "2", "0">>,
      <<"b", "l", "u", "n", "t">>, <<"j", "o", "i", "n", "t">>, <<"d", "a", "n", "k">>,
      <<"k", "u", "s", "h">>, <<"s", "a", "t", "i", "v", "a">>, <<"i", "n", "d", "i", "c", "a">>,
      <<"t", "h", "c">>, <<"c", "b", "d">>, <<"s", "t", "o", "n", "e", "r">>,
      <<"h", "i", "g", "h">>, <<"b", "a", "k", "e", "d">>, <<"l", "i", "t">>,
      <<"b", "l", "a", "z", "e", "d">>, <<"s", "h", "r", "o", "o", "m">>,
      <<"p", "s", "y", "c", "h", "e", "d", "e", "l", "i", "c">>, <<"a", "c", "i", "d">>,
      <<"l", "s", "d">>, <<"d", "m", "t">>, <<"m", "o", "l", "l", "y">>, <<"m", "d", "m", "a">> >>],
    [theme |-> "money", keywords |-> <<
      <<"m", "o", "n", "e", "y">>, <<"c", "a", "s", "h">>, <<"d", "o", "l", "l", "a", "r">>,
      <<"u", "s", "d">>, <<"e", "u", "r", "o">>, <<"p", "o", "u", "n", "d">>, <<"y", "e", "n">>,
      <<"g", "o", "l", "d">>, <<"s", "i", "l", "v", "e", "r">>,
      <<"d", "i", "a", "m", "o", "n", "d">>, <<"r", "i", "c", "h">>,
      <<"w", "e", "a", "l", "t", "h">>, <<"m", "i", "l", "l", "i", "o", "n">>,
      <<"b", "i", "l", "l", "i", "o", "n">>, <<"t", "r", "i", "l", "l", "i", "o", "n">>,
      <<"b", "a", "n", "k">>, <<"v", "a", "u", "l", "t">>,
      <<"t", "r", "e", "a", "s", "u", "r", "y">>, <<"f", "e", "d">>,
      <<"r", "e", "s", "e", "r", "v", "e">>, <<"p", "r", "i", "n", "t">>,
      <<"b", "r", "r", "r", "r">> >>],
    [theme |-> "gaming", keywords |-> <<
      <<"g", "a", "m", "e">>, <<"g", "a", "m", "e", "r">>, <<"g", "a", "m", "i", "n", "g">>,
      <<"e", "s", "p", "o", "r", "t">>, <<"t", "w", "i", "t", "c", "h">>,
      <<"s", "t", "r", "e", "a", "m">>, <<"x", "b", "o", "x">>,
      <<"p", "l", "a", "y", "s", "t", "a", "t", "i", "o", "n">>,
      <<"n", "i", "n", "t", "e", "n", "d", "o">>, <<"m", "a", "r", "i", "o">>,
      <<"z", "e", "l", "d", "a">>, <<"p", "o", "k", "e", "m", "o", "n">>,
      <<"p", "i", "k", "a", "c", "h", "u">>, <<"s", "o", "n", "i", "c">>,
      <<"m", "i", "n", "e", "c", "r", "a", "f", "t">>, <<"f", "o", "r", "t", "n", "i", "t", "e">>,
      <<"r", "o", "b", "l", "o", "x">>, <<"v", "a", "l", "o", "r", "a", "n", "t">>,
      <<"l", "e", "a", "g", "u", "e">>, <<"d", "o", "t", "a">>, <<"c", "s", "g", "o">>,
      <<"c", "o", "d">>, <<"g", "t", "a">>, <<"f", "i", "f", "a">> >>],
    [theme |-> "meme", keywords |-> <<
      <<"m", "e", "m", "e">>, <<"d", "a", "n", "k">>, <<"b", "a", "s", "e", "d">>,
      <<"c", "r", "i", "n", "g", "e">>, <<"k", "e", "k">>, <<"l", "o", "l">>,
      <<"l", "m", "a", "o">>, <<"r", "o", "f", "l">>, <<"b", "r", "u", "h">>, <<"s", "u", "s">>,
      <<"a", "m", "o", "g", "u", "s">>, <<"i", "m", "p", "o", "s", "t", "e", "r">>,
      <<"y", "e", "e", "t">>, <<"p", "o", "g", "g", "e", "r", "s">>,
      <<"c", "o", "p", "i", "u", "m">>, <<"h", "o", "p", "i", "u", "m">>, <<"n", "g", "m", "i">>,
      <<"w", "a", "g", "m", "i">>, <<"g", "m">>, <<"g", "n">>, <<"s", "e", "r">>,
      <<"f", "r", "e", "n">>, <<"a", "n", "o", "n">> >>]
  >>

DERIVATIVE_KEYWORDS ==
  <<
    <<"b", "a", "b", "y">>, <<"m", "i", "n", "i">>, <<"k", "i", "n", "g">>,
    <<"q", "u", "e", "e", "n">>, <<"s", "o", "n">>, <<"d", "a", "u", "g", "h", "t", "e", "r">>,
    <<"w", "i", "f", "e">>, <<"m", "o", "t", "h", "e", "r">>, <<"f", "a", "t", "h", "e", "r">>,
    <<"r", "e", "v", "e", "n", "g", "e">>, <<"r", "e", "t", "u", "r", "n", "s">>,
    <<"r", "e", "b", "o", "r", "n">>, <<"r", "i", "s", "i", "n", "g">>,
    <<"s", "t", "r", "i", "k", "e", "s">>, <<"s", "a", "g", "a">>,
    <<"c", "l", "a", "s", "s", "i", "c">>, <<"2", ".", "0">>, <<"p", "r", "o">>, <<"m", "a", "x">>,
    <<"u", "l", "t", "r", "a">>, <<"s", "u", "p", "e", "r">>, <<"m", "e", "g", "a">>,
    <<"g", "i", "g", "a">>
  >>
\* ------------------------------------------------------------------ results
\* interface DetectionResult; details is the template string as the sequence of
\* its pieces, empty when the code leaves the field out
Result(matched, method, confidence, details) ==
  [matched |-> matched, method |-> method, confidence |-> confidence, details |-> details]

NoMatch(method) == Result(FALSE, method, 0, <<>>)

\* The least index of a list that satisfies a test: the element at which a
\* for ... of loop with an early return leaves
FirstIndex(list, Test(_)) ==
  CHOOSE i \in DOMAIN list : Test(list[i]) /\ \A j \in 1..(i - 1) : ~Test(list[j])

\* Math.round(base + (num / den) * scale) for non-negative integers (round half up)
RoundScaled(base, num, den, scale) == ((2 * base * den) + (2 * scale * num) + den) \div (2 * den)

\* ------------------------------------------------------------------ layer 1: direct containment
\* directMatch with the arguments of includes exchanged
directMatchSwapped(runnerName, runnerSymbol, tokenName, tokenSymbol) ==
  LET rSym == normalize(runnerSymbol)
      tSym == normalize(tokenSymbol)
      tName == normalize(tokenName)
  IN IF rSym = tSym THEN NoMatch("direct")
     ELSE IF Len(rSym) >= 3 /\ Includes(rSym, tSym)
          THEN Result(TRUE, "direct", 98, tokenSymbol \o <<" contains ">> \o runnerSymbol)
     ELSE IF Len(rSym) >= 3 /\ Includes(rSym, tName)
          THEN Result(TRUE, "direct", 95,
                      <<"\"">> \o tokenName \o <<"\" contains ">> \o runnerSymbol)
     ELSE NoMatch("direct")

directMatch(runnerName, runnerSymbol, tokenName, tokenSymbol) ==
  LET rSym == normalize(runnerSymbol)
      tSym == normalize(tokenSymbol)
      tName == normalize(tokenName)
  IN IF rSym = tSym THEN NoMatch("direct")
     ELSE IF Len(rSym) >= 3 /\ Includes(tSym, rSym)
          THEN Result(TRUE, "direct", 98, tokenSymbol \o <<" contains ">> \o runnerSymbol)
     ELSE IF Len(rSym) >= 3 /\ Includes(tName, rSym)
          THEN Result(TRUE, "direct", 95,
                      <<"\"">> \o tokenName \o <<"\" contains ">> \o runnerSymbol)
     ELSE NoMatch("direct")

\* ------------------------------------------------------------------ layer 2: pattern matching
patternMatch(runnerSymbol, tokenName, tokenSymbol) ==
  LET rSym == normalize(runnerSymbol)
      tSym == normalize(tokenSymbol)
      tName == normalize(tokenName)
      IsPrefix(prefix) == tSym = prefix \o rSym \/ tName = prefix \o rSym
      IsSuffix(suffix) == tSym = rSym \o suffix \/ tName = rSym \o suffix
  IN IF rSym = tSym \/ Len(rSym) < 2 THEN NoMatch("pattern")
     ELSE IF \E i \in DOMAIN PREFIXES : IsPrefix(PREFIXES[i])
          THEN Result(TRUE, "pattern", 94,
                      PREFIXES[FirstIndex(PREFIXES, IsPrefix)] \o <<"+">> \o runnerSymbol)
     ELSE IF \E i \in DOMAIN SUFFIXES : IsSuffix(SUFFIXES[i])
          THEN Result(TRUE, "pattern", 94,
                      runnerSymbol \o <<"+">> \o SUFFIXES[FirstIndex(SUFFIXES, IsSuffix)])
     ELSE NoMatch("pattern")

\* ------------------------------------------------------------------ layer 3: word boundary
\* wordBoundaryMatch without the test of the runner symbol's length
wordBoundaryMatchAnyLength(runnerSymbol, tokenName, tokenSymbol) ==
  LET rSym == normalize(runnerSymbol)
      tSym == normalize(tokenSymbol)
      tName == normalize(tokenName)
      tokenWords == splitCompound(tokenName \o <<" ">> \o tokenSymbol)
      startsWithRunner == StartsWith(tSym, rSym) \/ StartsWith(tName, rSym)
      endsWithRunner == EndsWith(tSym, rSym) \/ EndsWith(tName, rSym)
  IN IF rSym = tSym THEN NoMatch("boundary")
     ELSE IF Contains(tokenWords, rSym)
          THEN Result(TRUE, "boundary", 92, <<"contains word \"">> \o runnerSymbol \o <<"\"">>)
     ELSE IF startsWithRunner \/ endsWithRunner
          THEN Result(TRUE, "boundary", 90,
                      <<IF startsWithRunner THEN "starts" ELSE "ends", " with ">> \o runnerSymbol)
     ELSE NoMatch("boundary")

wordBoundaryMatch(runnerSymbol, tokenName, tokenSymbol) ==
  LET rSym == normalize(runnerSymbol)
      tSym == normalize(tokenSymbol)
      tName == normalize(tokenName)
      tokenWords == splitCompound(tokenName \o <<" ">> \o tokenSymbol)
      startsWithRunner == StartsWith(tSym, rSym) \/ StartsWith(tName, rSym)
      endsWithRunner == EndsWith(tSym, rSym) \/ EndsWith(tName, rSym)
  IN IF rSym = tSym \/ Len(rSym) < 2 THEN NoMatch("boundary")
     ELSE IF Contains(tokenWords, rSym)
          THEN Result(TRUE, "boundary", 92, <<"contains word \"">> \o runnerSymbol \o <<"\"">>)
     ELSE IF startsWithRunner \/ endsWithRunner
          THEN Result(TRUE, "boundary", 90,
                      <<IF startsWithRunner THEN "starts" ELSE "ends", " with ">> \o runnerSymbol)
     ELSE NoMatch("boundary")

\* ------------------------------------------------------------------ layer 4: misspelling
misspellingMatch(runnerSymbol, tokenSymbol) ==
  LET rSym == normalize(runnerSymbol)
      tSym == normalize(tokenSymbol)
      Swaps(pair) == \/ ReplaceAll(rSym, pair[1], pair[2]) = tSym
                     \/ ReplaceAll(rSym, pair[2], pair[1]) = tSym
      dist == levenshtein(rSym, tSym)
  IN IF rSym = tSym \/ Len(rSym) < 3 THEN NoMatch("misspelling")
     ELSE IF Abs(Len(rSym) - Len(tSym)) > 2 THEN NoMatch("misspelling")
     ELSE IF \E i \in DOMAIN LETTER_SWAPS : Swaps(LETTER_SWAPS[i])
          THEN LET pair == LETTER_SWAPS[FirstIndex(LETTER_SWAPS, Swaps)]
               IN Result(TRUE, "misspelling", 90, pair[1] \o <<"U+2194">> \o pair[2] \o <<" swap">>)
     ELSE IF dist = 1 /\ Len(rSym) >= 3
          THEN Result(TRUE, "misspelling", 88, <<"1 char difference">>)
     ELSE IF dist = 2 /\ Len(rSym) >= 5
          THEN Result(TRUE, "misspelling", 78, <<"2 char difference">>)
     ELSE NoMatch("misspelling")

\* ------------------------------------------------------------------ layer 5: phonetic
Vowels == {"A", "E", "I", "O", "U"}

\* codes[c] || '' of soundex
SoundexCode(c) ==
  CASE c \in {"B", "F", "P", "V"} -> "1"
    [] c \in {"C", "G", "J", "K", "Q", "S", "X", "Z"} -> "2"
    [] c \in {"D", "T"} -> "3"
    [] c = "L" -> "4"
    [] c \in {"M", "N"} -> "5"
    [] c = "R" -> "6"
    [] OTHER -> ""

\* the for loop of soundex; i is the 0-based index of the code
RECURSIVE SoundexLoop(_, _, _, _)
SoundexLoop(s, i, result, prevCode) ==
  IF ~(i < Len(s) /\ Len(result) < 4) THEN result
  ELSE LET code == SoundexCode(s[i + 1])
       IN SoundexLoop(s, i + 1,
                      IF code # "" /\ code # prevCode THEN Append(result, code) ELSE result,
                      IF code # "" THEN code ELSE prevCode)

soundex(str) ==
  LET s == Keep(toUpperCase(str), Uppers)
  IN IF s = <<>> THEN <<>>
     ELSE Slice(SoundexLoop(s, 1, <<s[1]>>, SoundexCode(s[1])) \o <<"0", "0", "0">>, 0, 4)

\* .replace(/(.)\1+/g, '$1'): every run of equal characters becomes one character
RECURSIVE CollapseRuns(_, _)
CollapseRuns(s, i) ==
  IF i > Len(s) THEN <<>>
  ELSE IF i >= 2 /\ s[i] = s[i - 1] THEN CollapseRuns(s, i + 1)
       ELSE <<s[i]>> \o CollapseRuns(s, i + 1)

\* Simple Metaphone implementation
metaphone(str) ==
  LET s0 == Keep(toUpperCase(str), Uppers)
      s1 == IF \E h \in {<<"K", "N">>, <<"G", "N">>, <<"P", "N">>, <<"A", "E">>, <<"W", "R">>} :
                 StartsWith(s0, h)
            THEN <<s0[2]>> \o SubSeq(s0, 3, Len(s0))
            ELSE s0
      s2 == IF EndsWith(s1, <<"M", "B">>) THEN SubSeq(s1, 1, Len(s1) - 1) ELSE s1
      s3 == ReplaceFirst(s2, <<"X">>, <<"K", "S">>)
      s4 == ReplaceAll(s3, <<"P", "H">>, <<"F">>)
      s5 == ReplaceAll(s4, <<"C", "K">>, <<"K">>)
      s6 == ReplaceAll(s5, <<"S", "C", "H">>, <<"S", "K">>)
      s7 == ReplaceAll(s6, <<"G", "H">>, <<>>)
      s8 == Keep(s7, Uppers \ Vowels)
      s9 == CollapseRuns(s8, 1)
  IN IF s0 = <<>> THEN <<>> ELSE Slice(s9, 0, 4)

\* what a method leaves in place of a result when it throws: reading a property
\* of undefined, as in rSym[0].toLowerCase() on an empty string, is a TypeError
TypeError == Result(FALSE, "TypeError", 0, <<"Cannot read properties of undefined">>)

\* phoneticMatch without the return on symbols of fewer than three letters
phoneticMatchUnguarded(runnerName, runnerSymbol, tokenName, tokenSymbol) ==
  LET rSym == Keep(runnerSymbol, Letters)
      tSym == Keep(tokenSymbol, Letters)
      rNameWord == Keep(SplitOn(runnerName, Whitespace, <<>>)[1], Letters)
      tNameWord == Keep(SplitOn(tokenName, Whitespace, <<>>)[1], Letters)
  IN IF toLowerCase(rSym) = toLowerCase(tSym) THEN NoMatch("phonetic")
     ELSE IF rSym = <<>> \/ tSym = <<>> THEN TypeError
     ELSE IF LowerChar(rSym[1]) = LowerChar(tSym[1]) /\ soundex(rSym) = soundex(tSym)
          THEN Result(TRUE, "phonetic", 85, <<"soundex match">>)
     ELSE IF LowerChar(rSym[1]) = LowerChar(tSym[1]) /\ metaphone(rSym) = metaphone(tSym)
          THEN Result(TRUE, "phonetic", 83, <<"metaphone match">>)
     ELSE IF /\ Len(rNameWord) >= 4 /\ Len(tNameWord) >= 4
             /\ LowerChar(rNameWord[1]) = LowerChar(tNameWord[1])
             /\ (soundex(rNameWord) = soundex(tNameWord)
                   \/ metaphone(rNameWord) = metaphone(tNameWord))
          THEN Result(TRUE, "phonetic", 80, <<"name sounds similar">>)
     ELSE NoMatch("phonetic")

phoneticMatch(runnerName, runnerSymbol, tokenName, tokenSymbol) ==
  LET rSym == Keep(runnerSymbol, Letters)
      tSym == Keep(tokenSymbol, Letters)
      rNameWord == Keep(SplitOn(runnerName, Whitespace, <<>>)[1], Letters)
      tNameWord == Keep(SplitOn(tokenName, Whitespace, <<>>)[1], Letters)
  IN IF Len(rSym) < 3 \/ Len(tSym) < 3 THEN NoMatch("phonetic")
     ELSE IF toLowerCase(rSym) = toLowerCase(tSym) THEN NoMatch("phonetic")
     ELSE IF rSym = <<>> \/ tSym = <<>> THEN TypeError
     ELSE IF LowerChar(rSym[1]) = LowerChar(tSym[1]) /\ soundex(rSym) = soundex(tSym)
          THEN Result(TRUE, "phonetic", 85, <<"soundex match">>)
     ELSE IF LowerChar(rSym[1]) = LowerChar(tSym[1]) /\ metaphone(rSym) = metaphone(tSym)
          THEN Result(TRUE, "phonetic", 83, <<"metaphone match">>)
     ELSE IF /\ Len(rNameWord) >= 4 /\ Len(tNameWord) >= 4
             /\ LowerChar(rNameWord[1]) = LowerChar(tNameWord[1])
             /\ (soundex(rNameWord) = soundex(tNameWord)
                   \/ metaphone(rNameWord) = metaphone(tNameWord))
          THEN Result(TRUE, "phonetic", 80, <<"name sounds similar">>)
     ELSE NoMatch("phonetic")

\* ------------------------------------------------------------------ layer 6: leet speak / repeated chars
\* leetMatch that normalizes the candidate symbol without de-leeting it
leetMatchNoDeleet(runnerSymbol, tokenSymbol) ==
  LET rSym == normalize(runnerSymbol)
      tSym == toLowerCase(tokenSymbol)
      deleeted == normalize(tSym)
      derepeated == normalize(derepeat(tSym))
      both == normalize(derepeat(tSym))
  IN IF rSym = normalize(tSym) \/ Len(rSym) < 3 THEN NoMatch("leet")
     ELSE IF deleeted = rSym THEN Result(TRUE, "leet", 88, <<"leet speak conversion">>)
     ELSE IF derepeated = rSym THEN Result(TRUE, "leet", 86, <<"repeated chars removed">>)
     ELSE IF both = rSym THEN Result(TRUE, "leet", 84, <<"leet + repeated chars">>)
     ELSE NoMatch("leet")

leetMatch(runnerSymbol, tokenSymbol) ==
  LET rSym == normalize(runnerSymbol)
      tSym == toLowerCase(tokenSymbol)
      deleeted == normalize(deleet(tSym))
      derepeated == normalize(derepeat(tSym))
      both == normalize(derepeat(deleet(tSym)))
  IN IF rSym = normalize(tSym) \/ Len(rSym) < 3 THEN NoMatch("leet")
     ELSE IF deleeted = rSym THEN Result(TRUE, "leet", 88, <<"leet speak conversion">>)
     ELSE IF derepeated = rSym THEN Result(TRUE, "leet", 86, <<"repeated chars removed">>)
     ELSE IF both = rSym THEN Result(TRUE, "leet", 84, <<"leet + repeated chars">>)
     ELSE NoMatch("leet")

\* ------------------------------------------------------------------ layer 7: n-gram overlap
\* ngramMatch with the confidence Math.round(80 + similarity * 20)
ngramMatchBase80(runnerSymbol, tokenSymbol) ==
  LET rSym == normalize(runnerSymbol)
      tSym == normalize(tokenSymbol)
      rGrams == Range(ngrams(rSym, 3))
      tGrams == Range(ngrams(tSym, 3))
      overlap == Cardinality(rGrams \cap tGrams)
      larger == Max2(Cardinality(rGrams), Cardinality(tGrams))
  IN IF rSym = tSym \/ Len(rSym) < 4 \/ Len(tSym) < 4 THEN NoMatch("ngram")
     ELSE IF rGrams = {} \/ tGrams = {} THEN NoMatch("ngram")
     ELSE IF 10 * overlap >= 7 * larger
          THEN Result(TRUE, "ngram", RoundScaled(80, overlap, larger, 20),
                      <<ToString(RoundScaled(0, overlap, larger, 100)), "% trigram overlap">>)
     ELSE NoMatch("ngram")

ngramMatch(runnerSymbol, tokenSymbol) ==
  LET rSym == normalize(runnerSymbol)
      tSym == normalize(tokenSymbol)
      rGrams == Range(ngrams(rSym, 3))
      tGrams == Range(ngrams(tSym, 3))
      overlap == Cardinality(rGrams \cap tGrams)
      larger == Max2(Cardinality(rGrams), Cardinality(tGrams))
  IN IF rSym = tSym \/ Len(rSym) < 4 \/ Len(tSym) < 4 THEN NoMatch("ngram")
     ELSE IF rGrams = {} \/ tGrams = {} THEN NoMatch("ngram")
     \* similarity >= 0.7 with similarity = overlap / larger
     ELSE IF 10 * overlap >= 7 * larger
          THEN Result(TRUE, "ngram", RoundScaled(75, overlap, larger, 20),
                      <<ToString(RoundScaled(0, overlap, larger, 100)), "% trigram overlap">>)
     ELSE NoMatch("ngram")

\* ------------------------------------------------------------------ layer 8: theme / entity matching
\* text.toLowerCase().replace(/[^a-z0-9\s]/g, ' ')
ThemeText(text) ==
  LET lower == toLowerCase(text)
  IN [i \in DOMAIN lower |->
        IF lower[i] \in Lowers \cup Digits \cup Whitespace THEN lower[i] ELSE " "]

getThemes(text) ==
  LET lower == ThemeText(text)
      entries == SelectSeq(THEME_ENTITIES,
                           LAMBDA e : \E k \in DOMAIN e.keywords : Includes(lower, e.keywords[k]))
  IN [i \in DOMAIN entries |-> entries[i].theme]

\* THEME_ENTITIES[theme][0]
MainKeyword(theme) ==
  LET e == THEME_ENTITIES[CHOOSE i \in DOMAIN THEME_ENTITIES : THEME_ENTITIES[i].theme = theme]
  IN e.keywords[1]

\* shared.join(', ')
RECURSIVE JoinComma(_)
JoinComma(list) ==
  IF list = <<>> THEN <<>>
  ELSE IF Len(list) = 1 THEN <<list[1]>>
  ELSE <<list[1], ", ">> \o JoinComma(Tail(list))

\* themeMatch without the test that the runner is the main token of a shared theme
themeMatchUngated(runnerName, runnerSymbol, tokenName, tokenSymbol) ==
  LET runnerThemes == getThemes(runnerName \o <<" ">> \o runnerSymbol)
      tokenThemes == getThemes(tokenName \o <<" ">> \o tokenSymbol)
      shared == SelectSeq(runnerThemes, LAMBDA t : Contains(tokenThemes, t))
  IN IF Len(shared) > 0
     THEN Result(TRUE, "theme", 72, <<"same theme: ">> \o JoinComma(shared))
     ELSE NoMatch("theme")

themeMatch(runnerName, runnerSymbol, tokenName, tokenSymbol) ==
  LET runnerThemes == getThemes(runnerName \o <<" ">> \o runnerSymbol)
      tokenThemes == getThemes(tokenName \o <<" ">> \o tokenSymbol)
      shared == SelectSeq(runnerThemes, LAMBDA t : Contains(tokenThemes, t))
      runnerText == toLowerCase(runnerName \o <<" ">> \o runnerSymbol)
      isMainThemeToken == \E i \in DOMAIN shared : Includes(runnerText, MainKeyword(shared[i]))
  IN IF Len(shared) > 0 /\ isMainThemeToken
     THEN Result(TRUE, "theme", 72, <<"same theme: ">> \o JoinComma(shared))
     ELSE NoMatch("theme")

\* ------------------------------------------------------------------ layer 9: fuzzy string
\* fuzzyMatch with the threshold 0.75 in place of 0.8
fuzzyMatchLoose(runnerSymbol, tokenSymbol) ==
  LET rSym == normalize(runnerSymbol)
      tSym == normalize(tokenSymbol)
      maxLen == Max2(Len(rSym), Len(tSym))
      dist == levenshtein(rSym, tSym)
  IN IF rSym = tSym \/ Len(rSym) < 4 THEN NoMatch("fuzzy")
     ELSE IF 4 * dist <= maxLen
          THEN Result(TRUE, "fuzzy", RoundScaled(0, maxLen - dist, maxLen, 95),
                      <<ToString(RoundScaled(0, maxLen - dist, maxLen, 100)), "% similar">>)
     ELSE NoMatch("fuzzy")

fuzzyMatch(runnerSymbol, tokenSymbol) ==
  LET rSym == normalize(runnerSymbol)
      tSym == normalize(tokenSymbol)
      maxLen == Max2(Len(rSym), Len(tSym))
      dist == levenshtein(rSym, tSym)
  IN IF rSym = tSym \/ Len(rSym) < 4 THEN NoMatch("fuzzy")
     \* similarity >= 0.8 with similarity = 1 - dist / maxLen
     ELSE IF 5 * dist <= maxLen
          THEN Result(TRUE, "fuzzy", RoundScaled(0, maxLen - dist, maxLen, 95),
                      <<ToString(RoundScaled(0, maxLen - dist, maxLen, 100)), "% similar">>)
     ELSE NoMatch("fuzzy")

\* ------------------------------------------------------------------ layer 10: reverse / anagram
reversed(s) == [i \in DOMAIN s |-> s[Len(s) + 1 - i]]

\* insertion of one character into a list sorted by code unit
RECURSIVE InsertChar(_, _)
InsertChar(sorted, c) ==
  IF sorted = <<>> THEN <<c>>
  ELSE IF CharCode[c] < CharCode[Head(sorted)] THEN <<c>> \o sorted
       ELSE <<Head(sorted)>> \o InsertChar(Tail(sorted), c)

\* s.split('').sort().join('')
RECURSIVE SortChars(_)
SortChars(s) == IF s = <<>> THEN <<>> ELSE InsertChar(SortChars(Tail(s)), Head(s))

reverseMatch(runnerSymbol, tokenSymbol) ==
  LET rSym == normalize(runnerSymbol)
      tSym == normalize(tokenSymbol)
  IN IF rSym = tSym \/ Len(rSym) < 3 THEN NoMatch("reverse")
     ELSE IF reversed(rSym) = tSym THEN Result(TRUE, "reverse", 82, <<"reversed spelling">>)
     ELSE IF SortChars(rSym) = SortChars(tSym) /\ rSym # tSym
          THEN Result(TRUE, "reverse", 75, <<"anagram">>)
     ELSE NoMatch("reverse")

\* ------------------------------------------------------------------ layer 11: substring ratio
\* One row of the dp table of lcs: cur[j + 1] is dp[i][j]
LcsRow(prev, ai, b) ==
  [j1 \in 1..(Len(b) + 1) |-> IF j1 > 1 /\ ai = b[j1 - 1] THEN prev[j1 - 1] + 1 ELSE 0]

RowMax(row) == CHOOSE m \in Range(row) : \A x \in Range(row) : x <= m

RECURSIVE LcsRows(_, _, _, _, _)
LcsRows(prev, a, b, i, max) ==
  IF i > Len(a) THEN max
  ELSE LET cur == LcsRow(prev, a[i], b)
       IN LcsRows(cur, a, b, i + 1, Max2(max, RowMax(cur)))

\* Find longest common substring
lcs(a, b) == LcsRows([j1 \in 1..(Len(b) + 1) |-> 0], a, b, 1, 0)

\* substringMatch without lcs(rSym, tName): only the symbols are compared
substringMatchSymbolOnly(runnerSymbol, tokenSymbol, tokenName) ==
  LET rSym == normalize(runnerSymbol)
      tSym == normalize(tokenSymbol)
      best == lcs(rSym, tSym)
  IN IF rSym = tSym \/ Len(rSym) < 3 THEN NoMatch("substring")
     ELSE IF 4 * best >= 3 * Len(rSym) /\ best >= 3
          THEN Result(TRUE, "substring", RoundScaled(70, best, Len(rSym), 20),
                      <<ToString(best), "/", ToString(Len(rSym)), " chars match">>)
     ELSE NoMatch("substring")

substringMatch(runnerSymbol, tokenSymbol, tokenName) ==
  LET rSym == normalize(runnerSymbol)
      tSym == normalize(tokenSymbol)
      tName == normalize(tokenName)
      lcsSymbol == lcs(rSym, tSym)
      lcsName == lcs(rSym, tName)
      best == Max2(lcsSymbol, lcsName)
  IN IF rSym = tSym \/ Len(rSym) < 3 THEN NoMatch("substring")
     \* ratio >= 0.75 with ratio = best / rSym.length
     ELSE IF 4 * best >= 3 * Len(rSym) /\ best >= 3
          THEN Result(TRUE, "substring", RoundScaled(70, best, Len(rSym), 20),
                      <<ToString(best), "/", ToString(Len(rSym)), " chars match">>)
     ELSE NoMatch("substring")

\* ------------------------------------------------------------------ layer 12: derivative indicators
derivativeKeywordMatch(runnerSymbol, tokenName, tokenSymbol) ==
  LET rSym == toLowerCase(runnerSymbol)
      text == toLowerCase(tokenName \o <<" ">> \o tokenSymbol)
      words == splitCompound(text)
      HasKeyword(keyword) == Includes(text, keyword)
      Mentions(word) == Len(word) >= 3 /\ Includes(rSym, word)
  IN IF /\ \E k \in DOMAIN DERIVATIVE_KEYWORDS : HasKeyword(DERIVATIVE_KEYWORDS[k])
        /\ \E w \in DOMAIN words : Mentions(words[w])
     THEN Result(TRUE, "keyword", 78,
                 <<"\"">> \o DERIVATIVE_KEYWORDS[FirstIndex(DERIVATIVE_KEYWORDS, HasKeyword)]
                   \o <<"\" + \"">> \o words[FirstIndex(words, Mentions)] \o <<"\"">>)
     ELSE NoMatch("keyword")

Pool ==
  <<
    [name |-> <<"P", "e", "p", "e">>,
     symbol |-> <<"P", "E", "P", "E">>],
    [name |-> <<"B", "a", "b", "y", " ", "P", "e", "p", "e", " ", "T", "o", "k", "e", "n">>,
     symbol |-> <<"B", "A", "B", "Y", "P", "E", "P", "E">>],
    [name |-> <<"P", "3", "P", "3", " ", "C", "o", "i", "n">>,
     symbol |-> <<"P", "3", "P", "3">>],
    [name |-> <<"X", " ", "C", "o", "r", "p">>,
     symbol |-> <<"X">>],
    [name |-> <<"A", "n", "y", "t", "h", "i", "n", "g">>,
     symbol |-> <<"X", "Y", "Z", "A", "B", "C">>],
    [name |-> <<"S", "o", "l", "a", "n", "a">>,
     symbol |-> <<"S", "O", "L">>],
    [name |-> <<"U", "n", "r", "e", "l", "a", "t", "e", "d", " ", "P", "r", "o", "j", "e", "c", "t">>,
     symbol |-> <<"X", "Y", "Z">>],
    [name |-> <<"E", "p", "e", "p">>,
     symbol |-> <<"E", "P", "E", "P">>],
    [name |-> <<"P", "e", "p", "p", "e">>,
     symbol |-> <<"P", "E", "P", "P", "P", "E">>],
    [name |-> <<"P", "e", "p", "o", " ", "F", "r", "o", "g">>,
     symbol |-> <<"P", "E", "P", "O">>],
    [name |-> <<"B", "a", "b", "y", "D", "o", "g", "e", "K", "i", "n", "g">>,
     symbol |-> <<"B", "D", "K">>],
    [name |-> <<"D", "o", "g", "e">>,
     symbol |-> <<"D", "O", "G", "E">>],
    [name |-> <<"D", "o", "g", "e", "c", "o", "i", "n">>,
     symbol |-> <<"D", "O", "G", "E", "C", "O", "I", "N">>],
    [name |-> <<"D", "o", "g", "e", " ", "C", "o", "i", "n", "s">>,
     symbol |-> <<"D", "O", "G", "E", "C", "O", "I", "N", "S">>],
    [name |-> <<"p", "e", "-", "p", "e">>,
     symbol |-> <<"P", "E", ".", "P", "E">>],
    [name |-> <<>>,
     symbol |-> <<>>],
    [name |-> <<"S", "h", "i", "b", "a", " ", "I", "n", "u">>,
     symbol |-> <<"S", "H", "I", "B">>],
    [name |-> <<"D", "o", "d", "g", "e">>,
     symbol |-> <<"D", "O", "D", "G", "E">>],
    [name |-> <<"K", "n", "i", "g", "h", "t", " ", "m", "b">>,
     symbol |-> <<"K", "N", "I", "G", "H", "T">>],
    [name |-> <<"N", "i", "g", "h", "t">>,
     symbol |-> <<"N", "I", "G", "H", "T">>],
    [name |-> <<"P", "E", "P", "E", "2">>,
     symbol |-> <<"P", "E", "P", "E", "2">>],
    [name |-> <<"P", "h", "e", "p", "e">>,
     symbol |-> <<"P", "H", "E", "P", "E">>],
    [name |-> <<"X">>,
     symbol |-> <<"A", "I">>],
    [name |-> <<"P", "e", "e", "p">>,
     symbol |-> <<"P", "E", "E", "P">>],
    [name |-> <<"P", "e", "e", "e", "p">>,
     symbol |-> <<"P", "E", "E", "E", "P">>],
    [name |-> <<"P", "3", "3", "P">>,
     symbol |-> <<"P", "3", "3", "3", "P">>],
    [name |-> <<"S", "p", "e", "p", "e", "x">>,
     symbol |-> <<"S", "P", "E", "P", "E", "X">>],
    [name |-> <<"B", "a", "b", "y", " ", "D", "o", "g", "e">>,
     symbol |-> <<"D", "O", "G", "E">>],
    [name |-> <<"P", "e", "p", "e">>,
     symbol |-> <<"U+2605">>],
    [name |-> <<"D", "o", "g", "e", "k", "o", "i", "n">>,
     symbol |-> <<"D", "K">>],
    [name |-> <<"P", "r", "o", "x", "y", "z", "e", "n">>,
     symbol |-> <<"P", "R", "X">>]
  >>
\* ------------------------------------------------------------------ master detection function
\* the order in which detectDerivative runs the methods
MethodOrder ==
  <<"direct", "pattern", "boundary", "misspelling", "phonetic", "leet",
    "ngram", "fuzzy", "reverse", "substring", "theme", "keyword">>

\* const results: DetectionResult[] of detectDerivative
RunMethods(runnerName, runnerSymbol, tokenName, tokenSymbol) ==
  << directMatch(runnerName, runnerSymbol, tokenName, tokenSymbol),
     patternMatch(runnerSymbol, tokenName, tokenSymbol),
     wordBoundaryMatch(runnerSymbol, tokenName, tokenSymbol),
     misspellingMatch(runnerSymbol, tokenSymbol),
     phoneticMatch(runnerName, runnerSymbol, tokenName, tokenSymbol),
     leetMatch(runnerSymbol, tokenSymbol),
     ngramMatch(runnerSymbol, tokenSymbol),
     fuzzyMatch(runnerSymbol, tokenSymbol),
     reverseMatch(runnerSymbol, tokenSymbol),
     substringMatch(runnerSymbol, tokenSymbol, tokenName),
     themeMatch(runnerName, runnerSymbol, tokenName, tokenSymbol),
     derivativeKeywordMatch(runnerSymbol, tokenName, tokenSymbol) >>

\* insertion of x into a list sorted by confidence, highest first, before the
\* elements that compare equal: a sort that reverses ties
RECURSIVE InsertBeforeEquals(_, _)
InsertBeforeEquals(sorted, x) ==
  IF sorted = <<>> THEN <<x>>
  ELSE IF x.confidence >= Head(sorted).confidence THEN <<x>> \o sorted
       ELSE <<Head(sorted)>> \o InsertBeforeEquals(Tail(sorted), x)

\* insertion of x into a list sorted by confidence, highest first, behind the
\* elements that compare equal (Array.prototype.sort is stable)
RECURSIVE InsertByConfidence(_, _)
InsertByConfidence(sorted, x) ==
  IF sorted = <<>> THEN <<x>>
  ELSE IF x.confidence > Head(sorted).confidence THEN <<x>> \o sorted
       ELSE <<Head(sorted)>> \o InsertByConfidence(Tail(sorted), x)

\* list.sort((a, b) => b.confidence - a.confidence)
RECURSIVE SortByConfidence(_)
SortByConfidence(list) ==
  IF list = <<>> THEN <<>>
  ELSE InsertByConfidence(SortByConfidence(SubSeq(list, 1, Len(list) - 1)), list[Len(list)])

\* the agreement bonus without the clamp Math.min(99, ...)
AgreementBoostUnclamped(confidence, count) ==
  IF count >= 4 THEN confidence + 8
  ELSE IF count >= 3 THEN confidence + 5
  ELSE IF count >= 2 THEN confidence + 2
  ELSE confidence

\* the agreement bonus with the bonuses of four and of two methods exchanged
AgreementBoostExchanged(confidence, count) ==
  IF count >= 4 THEN Min2(99, confidence + 2)
  ELSE IF count >= 3 THEN Min2(99, confidence + 5)
  ELSE IF count >= 2 THEN Min2(99, confidence + 8)
  ELSE confidence

\* Boost confidence based on method agreement
AgreementBoost(confidence, count) ==
  IF count >= 4 THEN Min2(99, confidence + 8)
  ELSE IF count >= 3 THEN Min2(99, confidence + 5)
  ELSE IF count >= 2 THEN Min2(99, confidence + 2)
  ELSE confidence

\* the reduction with "matches.length <= 1" in place of "matches.length === 0"
FusionNeedsTwo(list) ==
  LET found == SortByConfidence(SelectSeq(list, LAMBDA r : r.matched))
      best == found[1]
  IN IF Len(found) <= 1
     THEN [isDerivative |-> FALSE, bestMethod |-> "none", confidence |-> 0,
           details |-> <<>>, allMatches |-> <<>>, methodCount |-> 0]
     ELSE [isDerivative |-> TRUE, bestMethod |-> best.method,
           confidence |-> AgreementBoost(best.confidence, Len(found)),
           details |-> best.details, allMatches |-> found, methodCount |-> Len(found)]

\* detectDerivative from the filter on: the reduction of the twelve results
Fusion(results) ==
  LET matches == SortByConfidence(SelectSeq(results, LAMBDA r : r.matched))
      best == matches[1]
  IN IF Len(matches) = 0
     THEN [isDerivative |-> FALSE, bestMethod |-> "none", confidence |-> 0,
           details |-> <<>>, allMatches |-> <<>>, methodCount |-> 0]
     ELSE [isDerivative |-> TRUE, bestMethod |-> best.method,
           confidence |-> AgreementBoost(best.confidence, Len(matches)),
           details |-> best.details, allMatches |-> matches, methodCount |-> Len(matches)]

\* what detectDerivative leaves in place of a result when a method throws
Thrown == [isDerivative |-> FALSE, bestMethod |-> "TypeError", confidence |-> 0,
           details |-> <<>>, allMatches |-> <<>>, methodCount |-> 0]

\* an exception of a method ends detectDerivative before the filter
Reduce(results) ==
  IF \E i \in DOMAIN results : results[i] = TypeError THEN Thrown ELSE Fusion(results)

detectDerivative(runnerName, runnerSymbol, tokenName, tokenSymbol) ==
  Reduce(RunMethods(runnerName, runnerSymbol, tokenName, tokenSymbol))

\* ------------------------------------------------------------------ inputs
\* Longest generated candidate symbol
MaxGenLen == 4

\* Longest synthetic list of method results
MaxSynth == 4

\* Longest runner list and candidate list handed to findDerivatives
MaxRunners == 2
MaxTokens == 2

\* Sequences over a set of length at most n
SeqsUpTo(S, n) == UNION {[1..k -> S] : k \in 0..n}

\* Candidates whose name and symbol are one generated string
GenAlphabet == {"P", "E", "3"}
GenTokens == {[name |-> s, symbol |-> s] : s \in SeqsUpTo(GenAlphabet, MaxGenLen)}

\* Runners the generated candidates are compared with: PEPE, P3P3, X, PEEP
GenRunners == {Pool[1], Pool[3], Pool[4], Pool[24]}

\* Confidences of the synthetic method results
SynthConfidences == {90, 98}

\* Lists in which slot i is a result of method i, matched or not
SynthLists ==
  UNION {[1..k -> {0} \cup SynthConfidences] : k \in 0..MaxSynth}

SynthResults(list) ==
  [i \in DOMAIN list |->
     IF list[i] = 0 THEN NoMatch(MethodOrder[i])
     ELSE Result(TRUE, MethodOrder[i], list[i], <<"synthetic">>)]

\* interface TokenInfo
BatchPool ==
  << [id |-> "a", name |-> <<"P", "e", "p", "e">>, symbol |-> <<"P", "E", "P", "E">>,
      marketCap |-> 5000],
     [id |-> "b", name |-> <<"B", "a", "b", "y", " ", "P", "e", "p", "e">>,
      symbol |-> <<"B", "A", "B", "Y", "P", "E", "P", "E">>, marketCap |-> 300],
     [id |-> "c", name |-> <<"P", "3", "P", "3">>, symbol |-> <<"P", "3", "P", "3">>,
      marketCap |-> 200],
     [id |-> "d", name |-> <<"S", "o", "l">>, symbol |-> <<"S", "O", "L">>,
      marketCap |-> 9000],
     [id |-> "e", name |-> <<"P", "e", "p", "e">>, symbol |-> <<"P", "E", "P", "E">>,
      marketCap |-> 100] >>

\* ------------------------------------------------------------------ state
VARIABLES
  args,       \* the four strings of one detectDerivative call
  results,    \* the twelve DetectionResults of that call, <<>> before it
  full,       \* the FullDetectionResult of that call, Pending before it
  resultsB,   \* a second list of method results, reduced beside the first
  fullB,      \* its FullDetectionResult
  runners,    \* findDerivatives: the runners argument
  tokens,     \* findDerivatives: the tokens argument
  ti,         \* index of the token of the outer loop
  ri,         \* index of the runner of the inner loop
  bestMatch,  \* let bestMatch: DerivativeMatch | null
  matches,    \* const matches: DerivativeMatch[]
  compared,   \* the <<runner id, token id>> pairs detectDerivative was called on
  pc,         \* "loop" inside findDerivatives, "done" once it has returned
  pass,       \* 1 in the first call of findDerivatives, 2 in a repeated call
  prev,       \* the list the first call returned
  db,         \* the token table: id -> [isMainRunner, isVisible, parentRunnerId]
  req,        \* the query parameters of the GET request being served, Null before it
  unlinked,   \* GET: const unlinked
  ui,         \* GET: index of the token of the loop over unlinked
  processed,  \* GET: const processed = new Set<string>()
  response,   \* the JSON body GET answered with, Null before it
  call,       \* one call of a utility function: its name and its arguments
  rets        \* the values returned for that call, in the order of the calls made

\* runners, matches and pc also hold const runners, const matches and the
\* position of the GET handler ("route" in its loop, "responded" at the end)
vars == <<args, results, full, resultsB, fullB,
          runners, tokens, ti, ri, bestMatch, matches, compared, pc, pass, prev,
          db, req, unlinked, ui, processed, response, call, rets>>

detectVars == <<args, results, full, resultsB, fullB>>
batchVars == <<runners, tokens, ti, ri, bestMatch, matches, compared, pc, pass, prev>>
batchOnlyVars == <<tokens, ti, ri, bestMatch, compared, pass, prev>>
routeVars == <<db, req, unlinked, ui, processed, response>>
utilVars == <<call, rets>>

Pending == [isDerivative |-> FALSE, bestMethod |-> "pending", confidence |-> 0,
            details |-> <<>>, allMatches |-> <<>>, methodCount |-> 0]

Null == [null |-> TRUE]

NoArgs == [runnerName |-> <<>>, runnerSymbol |-> <<>>, tokenName |-> <<>>, tokenSymbol |-> <<>>]

IdleDetect ==
  /\ args = NoArgs
  /\ results = <<>>
  /\ full = Pending
  /\ resultsB = <<>>
  /\ fullB = Pending

IdleUtil ==
  /\ call = Null
  /\ rets = <<>>

IdleRoute ==
  /\ db = <<>>
  /\ req = Null
  /\ unlinked = <<>>
  /\ ui = 1
  /\ processed = {}
  /\ response = Null

IdleBatch ==
  /\ runners = <<>>
  /\ tokens = <<>>
  /\ ti = 1
  /\ ri = 1
  /\ bestMatch = Null
  /\ matches = <<>>
  /\ compared = {}
  /\ pc = "idle"
  /\ pass = 1
  /\ prev = <<>>

\* ------------------------------------------------------------------ single-pair evaluation
InitDetect ==
  /\ \E r \in Range(Pool), t \in Range(Pool) \cup GenTokens :
       /\ t \in GenTokens => r \in GenRunners
       /\ args = [runnerName |-> r.name, runnerSymbol |-> r.symbol,
                  tokenName |-> t.name, tokenSymbol |-> t.symbol]
  /\ results = <<>>
  /\ full = Pending
  /\ resultsB = <<>>
  /\ fullB = Pending
  /\ IdleBatch
  /\ IdleRoute
  /\ IdleUtil

\* one call detectDerivative(runnerName, runnerSymbol, tokenName, tokenSymbol)
Detect ==
  /\ full = Pending
  /\ results' = RunMethods(args.runnerName, args.runnerSymbol, args.tokenName, args.tokenSymbol)
  /\ full' = detectDerivative(args.runnerName, args.runnerSymbol,
                              args.tokenName, args.tokenSymbol)
  /\ UNCHANGED <<args, resultsB, fullB>>
  /\ UNCHANGED batchVars
  /\ UNCHANGED routeVars
  /\ UNCHANGED utilVars

NextDetect == Detect

SpecDetect == InitDetect /\ [][NextDetect]_vars

\* ------------------------------------------------------------------ fusion of synthetic results
InitFusion ==
  /\ args = NoArgs
  /\ \E a \in SynthLists, b \in SynthLists :
       /\ results = SynthResults(a)
       /\ resultsB = SynthResults(b)
  /\ full = Pending
  /\ fullB = Pending
  /\ IdleBatch
  /\ IdleRoute
  /\ IdleUtil

\* the reduction of detectDerivative on each of the two lists
Fuse ==
  /\ full = Pending
  /\ full' = Fusion(results)
  /\ fullB' = Fusion(resultsB)
  /\ UNCHANGED <<args, results, resultsB>>
  /\ UNCHANGED batchVars
  /\ UNCHANGED routeVars
  /\ UNCHANGED utilVars

NextFusion == Fuse

SpecFusion == InitFusion /\ [][NextFusion]_vars

\* ------------------------------------------------------------------ batch detection
Init ==
  /\ IdleDetect
  /\ IdleRoute
  /\ IdleUtil
  /\ runners \in SeqsUpTo(Range(BatchPool), MaxRunners)
  /\ tokens \in SeqsUpTo(Range(BatchPool), MaxTokens)
  /\ ti = 1
  /\ ri = 1
  /\ bestMatch = Null
  /\ matches = <<>>
  /\ compared = {}
  /\ pc = "loop"
  /\ pass = 1
  /\ prev = <<>>

\* the test with the two objects compared instead of their ids: a runner and a
\* token are never the same object
SameTokenByReference(runner, token) == FALSE

\* runner.id === token.id
SameToken(runner, token) == runner.id = token.id

\* if (runner.id === token.id) continue;
SkipSelf ==
  /\ pc = "loop"
  /\ ti <= Len(tokens)
  /\ ri <= Len(runners)
  /\ SameToken(runners[ri], tokens[ti])
  /\ ri' = ri + 1
  /\ UNCHANGED <<runners, tokens, ti, bestMatch, matches, compared, pc, pass, prev>>
  /\ UNCHANGED detectVars
  /\ UNCHANGED routeVars
  /\ UNCHANGED utilVars

\* a record with its symbol: a record read from malformed data has none, and
\* runner.symbol or token.symbol is then undefined
HasSymbol(record) == "symbol" \in DOMAIN record

\* the body of the inner loop without "result.confidence > bestMatch.confidence":
\* the first runner reported stays the best match
CompareKeepingFirst ==
  /\ pc = "loop"
  /\ ti <= Len(tokens)
  /\ ri <= Len(runners)
  /\ ~SameToken(runners[ri], tokens[ti])
  /\ LET token == tokens[ti]
         runner == runners[ri]
     IN \E result \in {detectDerivative(runner.name, runner.symbol, token.name, token.symbol)} :
        /\ compared' = compared \cup {<<runner.id, token.id>>}
        /\ bestMatch' =
             IF result.isDerivative /\ bestMatch = Null
             THEN [token |-> token, runner |-> runner, method |-> result.bestMethod,
                   confidence |-> result.confidence, details |-> result.details,
                   methodCount |-> result.methodCount]
             ELSE bestMatch
  /\ ri' = ri + 1
  /\ UNCHANGED <<runners, tokens, ti, matches, pc, pass, prev>>
  /\ UNCHANGED detectVars
  /\ UNCHANGED routeVars
  /\ UNCHANGED utilVars

\* the body of the inner loop with "result.confidence >= bestMatch.confidence":
\* a later runner with the same confidence replaces the best match
CompareKeepingLast ==
  /\ pc = "loop"
  /\ ti <= Len(tokens)
  /\ ri <= Len(runners)
  /\ ~SameToken(runners[ri], tokens[ti])
  /\ LET token == tokens[ti]
         runner == runners[ri]
     IN IF ~HasSymbol(runner) \/ ~HasSymbol(token)
        THEN /\ compared' = compared \cup {<<runner.id, token.id>>}
             /\ pc' = "thrown"
             /\ UNCHANGED <<bestMatch, ri>>
        ELSE \E result \in {detectDerivative(runner.name, runner.symbol,
                                              token.name, token.symbol)} :
               /\ compared' = compared \cup {<<runner.id, token.id>>}
               /\ bestMatch' =
                    IF result.isDerivative
                       /\ (bestMatch = Null \/ result.confidence >= bestMatch.confidence)
                    THEN [token |-> token, runner |-> runner, method |-> result.bestMethod,
                          confidence |-> result.confidence, details |-> result.details,
                          methodCount |-> result.methodCount]
                    ELSE bestMatch
               /\ ri' = ri + 1
               /\ pc' = pc
  /\ UNCHANGED <<runners, tokens, ti, matches, pass, prev>>
  /\ UNCHANGED detectVars
  /\ UNCHANGED routeVars
  /\ UNCHANGED utilVars

\* the body of the inner loop for a runner with another id; with a symbol that
\* is undefined the first method's normalize(undefined) throws a TypeError that
\* nothing in findDerivatives catches
Compare ==
  /\ pc = "loop"
  /\ ti <= Len(tokens)
  /\ ri <= Len(runners)
  /\ ~SameToken(runners[ri], tokens[ti])
  /\ LET token == tokens[ti]
         runner == runners[ri]
     IN IF ~HasSymbol(runner) \/ ~HasSymbol(token)
        THEN /\ compared' = compared \cup {<<runner.id, token.id>>}
             /\ pc' = "thrown"
             /\ UNCHANGED <<bestMatch, ri>>
        ELSE \E result \in {detectDerivative(runner.name, runner.symbol,
                                              token.name, token.symbol)} :
               /\ compared' = compared \cup {<<runner.id, token.id>>}
               /\ bestMatch' =
                    IF result.isDerivative
                       /\ (bestMatch = Null \/ result.confidence > bestMatch.confidence)
                    THEN [token |-> token, runner |-> runner, method |-> result.bestMethod,
                          confidence |-> result.confidence, details |-> result.details,
                          methodCount |-> result.methodCount]
                    ELSE bestMatch
               /\ ri' = ri + 1
               /\ pc' = pc
  /\ UNCHANGED <<runners, tokens, ti, matches, pass, prev>>
  /\ UNCHANGED detectVars
  /\ UNCHANGED routeVars
  /\ UNCHANGED utilVars

\* the end of the outer loop's body with bestMatch declared outside the loop: the
\* best match of a candidate stays in place for the next one
EndTokenKeepingBest ==
  /\ pc = "loop"
  /\ ti <= Len(tokens)
  /\ ri > Len(runners)
  /\ matches' = IF bestMatch # Null THEN Append(matches, bestMatch) ELSE matches
  /\ ti' = ti + 1
  /\ ri' = 1
  /\ UNCHANGED <<runners, tokens, bestMatch, compared, pc, pass, prev>>
  /\ UNCHANGED detectVars
  /\ UNCHANGED routeVars
  /\ UNCHANGED utilVars

\* the end of the outer loop's body: if (bestMatch) matches.push(bestMatch)
EndToken ==
  /\ pc = "loop"
  /\ ti <= Len(tokens)
  /\ ri > Len(runners)
  /\ matches' = IF bestMatch # Null THEN Append(matches, bestMatch) ELSE matches
  /\ bestMatch' = Null
  /\ ti' = ti + 1
  /\ ri' = 1
  /\ UNCHANGED <<runners, tokens, compared, pc, pass, prev>>
  /\ UNCHANGED detectVars
  /\ UNCHANGED routeVars
  /\ UNCHANGED utilVars

\* the return of findDerivatives without the sort
ReturnUnsorted ==
  /\ pc = "loop"
  /\ ti > Len(tokens)
  /\ pc' = "done"
  /\ UNCHANGED <<runners, tokens, ti, ri, bestMatch, matches, compared, pass, prev>>
  /\ UNCHANGED detectVars
  /\ UNCHANGED routeVars
  /\ UNCHANGED utilVars

\* matches.sort((a, b) => b.confidence - a.confidence); return matches;
Return ==
  /\ pc = "loop"
  /\ ti > Len(tokens)
  /\ matches' = SortByConfidence(matches)
  /\ pc' = "done"
  /\ UNCHANGED <<runners, tokens, ti, ri, bestMatch, compared, pass, prev>>
  /\ UNCHANGED detectVars
  /\ UNCHANGED routeVars
  /\ UNCHANGED utilVars

\* a second call that goes on with the matches array of the first
RerunKeepingMatches ==
  /\ pc = "done"
  /\ pass = 1
  /\ prev' = matches
  /\ pass' = 2
  /\ bestMatch' = Null
  /\ ti' = 1
  /\ ri' = 1
  /\ pc' = "loop"
  /\ UNCHANGED <<runners, tokens, compared, matches>>
  /\ UNCHANGED detectVars
  /\ UNCHANGED routeVars
  /\ UNCHANGED utilVars

\* a second call findDerivatives(runners, tokens) with the same arguments
Rerun ==
  /\ pc = "done"
  /\ pass = 1
  /\ prev' = matches
  /\ pass' = 2
  /\ matches' = <<>>
  /\ bestMatch' = Null
  /\ ti' = 1
  /\ ri' = 1
  /\ pc' = "loop"
  /\ UNCHANGED <<runners, tokens, compared>>
  /\ UNCHANGED detectVars
  /\ UNCHANGED routeVars
  /\ UNCHANGED utilVars

Next == SkipSelf \/ Compare \/ EndToken \/ Return

Spec == Init /\ [][Next]_vars

NextRerun == Next \/ Rerun

SpecRerun == Init /\ [][NextRerun]_vars

\* a second call findDerivatives(runners, tokens) with the candidates in the
\* reverse order
RerunReversed ==
  /\ pc = "done"
  /\ pass = 1
  /\ prev' = matches
  /\ pass' = 2
  /\ tokens' = reversed(tokens)
  /\ matches' = <<>>
  /\ bestMatch' = Null
  /\ ti' = 1
  /\ ri' = 1
  /\ pc' = "loop"
  /\ UNCHANGED <<runners, compared>>
  /\ UNCHANGED detectVars
  /\ UNCHANGED routeVars
  /\ UNCHANGED utilVars

NextReorder == Next \/ RerunReversed

SpecReorder == Init /\ [][NextReorder]_vars

\* ------------------------------------------------------------------ batch detection on malformed records
\* Two well-formed records and one without a symbol
MalformedPool ==
  {BatchPool[1], BatchPool[2],
   [id |-> "m", name |-> <<"M", "o", "o", "n">>, marketCap |-> 50]}

InitMalformed ==
  /\ IdleDetect
  /\ IdleRoute
  /\ IdleUtil
  /\ runners \in SeqsUpTo(MalformedPool, MaxRunners)
  /\ tokens \in SeqsUpTo(MalformedPool, MaxTokens)
  /\ ti = 1
  /\ ri = 1
  /\ bestMatch = Null
  /\ matches = <<>>
  /\ compared = {}
  /\ pc = "loop"
  /\ pass = 1
  /\ prev = <<>>

SpecMalformed == InitMalformed /\ [][Next]_vars

\* ------------------------------------------------------------------ GET of the match route
\* The values of ?minConfidence= the requests are made with
RouteThresholds == {0, 72, 93, 100}

\* The confidences the external comparison answers with (it drops answers under 60)
AIConfidences == {60, 95}

TokenIds == {BatchPool[i].id : i \in DOMAIN BatchPool}

\* orderBy: { marketCap: 'desc' } on a set of rows with distinct market caps
RECURSIVE ByMarketCapDesc(_)
ByMarketCapDesc(rows) ==
  IF rows = {} THEN <<>>
  ELSE LET top == CHOOSE r \in rows : \A o \in rows : o.marketCap <= r.marketCap
       IN <<top>> \o ByMarketCapDesc(rows \ {top})

\* prisma.token.findMany({ where: { isMainRunner: true }, orderBy: ... })
FindRunners(table) ==
  ByMarketCapDesc({t \in Range(BatchPool) : table[t.id].isMainRunner})

\* prisma.token.findMany({ where: { isMainRunner: false, parentRunnerId: null,
\*                                  isVisible: true }, orderBy: ... })
FindUnlinked(table) ==
  ByMarketCapDesc({t \in Range(BatchPool) :
                     /\ ~table[t.id].isMainRunner
                     /\ table[t.id].parentRunnerId = "null"
                     /\ table[t.id].isVisible})

\* the loop with "result.confidence <= minConfidence"
RECURSIVE ScanRunnersAtMost(_, _, _, _, _)
ScanRunnersAtMost(list, i, token, minConfidence, best) ==
  IF i > Len(list) THEN best
  ELSE IF list[i].id = token.id
       THEN ScanRunnersAtMost(list, i + 1, token, minConfidence, best)
  ELSE LET runner == list[i]
           result == detectDerivative(runner.name, runner.symbol, token.name, token.symbol)
           isBetter == /\ result.isDerivative
                       /\ result.confidence <= minConfidence
                       /\ (best = Null \/ result.confidence > best.confidence)
       IN ScanRunnersAtMost(list, i + 1, token, minConfidence,
                            IF isBetter
                            THEN [runner |-> runner, method |-> result.bestMethod,
                                  confidence |-> result.confidence, details |-> result.details]
                            ELSE best)

\* the loop without the test against minConfidence
RECURSIVE ScanRunnersNoThreshold(_, _, _, _, _)
ScanRunnersNoThreshold(list, i, token, minConfidence, best) ==
  IF i > Len(list) THEN best
  ELSE IF list[i].id = token.id
       THEN ScanRunnersNoThreshold(list, i + 1, token, minConfidence, best)
  ELSE LET runner == list[i]
           result == detectDerivative(runner.name, runner.symbol, token.name, token.symbol)
           isBetter == /\ result.isDerivative
                       /\ (best = Null \/ result.confidence > best.confidence)
       IN ScanRunnersNoThreshold(list, i + 1, token, minConfidence,
                                 IF isBetter
                                 THEN [runner |-> runner, method |-> result.bestMethod,
                                       confidence |-> result.confidence,
                                       details |-> result.details]
                                 ELSE best)

\* the loop "for (const runner of runners)" of GET from runner i on, with the
\* bestMatch found so far
RECURSIVE ScanRunners(_, _, _, _, _)
ScanRunners(list, i, token, minConfidence, best) ==
  IF i > Len(list) THEN best
  ELSE IF list[i].id = token.id THEN ScanRunners(list, i + 1, token, minConfidence, best)
  ELSE LET runner == list[i]
           result == detectDerivative(runner.name, runner.symbol, token.name, token.symbol)
           isBetter == /\ result.isDerivative
                       /\ result.confidence >= minConfidence
                       /\ (best = Null \/ result.confidence > best.confidence)
       IN ScanRunners(list, i + 1, token, minConfidence,
                      IF isBetter
                      THEN [runner |-> runner, method |-> result.bestMethod,
                            confidence |-> result.confidence, details |-> result.details]
                      ELSE best)

\* What aiCompareTokens can return for a list of runners: null, or the first
\* runner that carries the symbol the model named, with a confidence of 60 or more
AIAnswers(list) ==
  {Null} \cup
  {[runnerId |-> list[i].id, confidence |-> c] :
     i \in {k \in DOMAIN list :
              \A j \in 1..(k - 1) : toLowerCase(list[j].symbol) # toLowerCase(list[k].symbol)},
     c \in AIConfidences}

\* the entry GET pushes for a token and its bestMatch
RouteEntry(token, best) ==
  [derivative |-> token.symbol, derivativeName |-> token.name,
   runner |-> best.runner.symbol, runnerName |-> best.runner.name,
   method |-> best.method, confidence |-> best.confidence, details |-> best.details]

\* The loop over unlinked with the external comparison switched off, and the sort
RECURSIVE PassFrom(_, _, _, _, _, _)
PassFrom(list, cands, i, minConfidence, done, out) ==
  IF i > Len(cands) THEN SortByConfidence(out)
  ELSE IF cands[i].id \in done THEN PassFrom(list, cands, i + 1, minConfidence, done, out)
  ELSE LET best == ScanRunners(list, 1, cands[i], minConfidence, Null)
       IN IF best = Null THEN PassFrom(list, cands, i + 1, minConfidence, done, out)
          ELSE PassFrom(list, cands, i + 1, minConfidence, done \cup {cands[i].id},
                        Append(out, RouteEntry(cands[i], best)))

DeterministicPass(list, cands, minConfidence) == PassFrom(list, cands, 1, minConfidence, {}, <<>>)

\* Tokens that can be runners, that can be hidden, and that can be linked already
RunnerCandidates == {"a", "d", "e"}
HiddenCandidates == {"c"}
LinkedCandidates == {"b"}

InitRoute ==
  /\ IdleDetect
  /\ IdleUtil
  /\ \E mainRunners \in SUBSET RunnerCandidates, hidden \in SUBSET HiddenCandidates,
        linked \in SUBSET LinkedCandidates :
       db = [id \in TokenIds |->
               [isMainRunner |-> id \in mainRunners,
                isVisible |-> id \notin hidden,
                parentRunnerId |-> IF id \in linked THEN "a" ELSE "null"]]
  /\ req = Null
  /\ runners = <<>>
  /\ unlinked = <<>>
  /\ ui = 1
  /\ processed = {}
  /\ matches = <<>>
  /\ response = Null
  /\ pc = "idle"
  /\ tokens = <<>>
  /\ ti = 1
  /\ ri = 1
  /\ bestMatch = Null
  /\ compared = {}
  /\ pass = 1
  /\ prev = <<>>

\* GET up to the loop: the query parameters and the two findMany calls
GetStart ==
  /\ pc = "idle"
  /\ req = Null
  /\ db # <<>>
  /\ \E m \in RouteThresholds, ai \in BOOLEAN, dry \in BOOLEAN :
       req' = [minConfidence |-> m, useAI |-> ai, dryRun |-> dry]
  /\ runners' = FindRunners(db)
  /\ unlinked' = FindUnlinked(db)
  /\ matches' = <<>>
  /\ processed' = {}
  /\ ui' = 1
  /\ pc' = "route"
  /\ UNCHANGED <<db, response>>
  /\ UNCHANGED batchOnlyVars
  /\ UNCHANGED detectVars
  /\ UNCHANGED utilVars

\* one iteration of "for (const token of unlinked)"
MatchToken ==
  /\ pc = "route"
  /\ ui <= Len(unlinked)
  /\ LET token == unlinked[ui]
     IN IF token.id \in processed
        THEN UNCHANGED <<db, processed, matches>>
        ELSE \E found \in {ScanRunners(runners, 1, token, req.minConfidence, Null)} :
             \E aiResult \in IF found = Null /\ req.useAI /\ Len(runners) > 0
                             THEN AIAnswers(SubSeq(runners, 1, Min2(15, Len(runners))))
                             ELSE {Null} :
               LET viaAI == /\ found = Null
                            /\ aiResult # Null
                            /\ aiResult.confidence >= req.minConfidence
                            /\ \E r \in Range(runners) : r.id = aiResult.runnerId
                   best ==
                     IF viaAI
                     THEN [runner |-> runners[CHOOSE k \in DOMAIN runners :
                                                /\ runners[k].id = aiResult.runnerId
                                                /\ \A j \in 1..(k - 1) :
                                                     runners[j].id # aiResult.runnerId],
                           method |-> "ai", confidence |-> aiResult.confidence,
                           details |-> <<"AI detected relationship">>]
                     ELSE found
               IN IF best = Null
                  THEN UNCHANGED <<db, processed, matches>>
                  ELSE /\ processed' = processed \cup {token.id}
                       /\ db' = IF req.dryRun THEN db
                                ELSE [db EXCEPT ![token.id].parentRunnerId = best.runner.id]
                       /\ matches' = Append(matches, RouteEntry(token, best))
  /\ ui' = ui + 1
  /\ UNCHANGED <<req, runners, unlinked, response, pc>>
  /\ UNCHANGED batchOnlyVars
  /\ UNCHANGED detectVars
  /\ UNCHANGED utilVars

\* matches.sort(...) and the JSON response
Respond ==
  /\ pc = "route"
  /\ ui > Len(unlinked)
  /\ matches' = SortByConfidence(matches)
  /\ response' = [success |-> TRUE, dryRun |-> req.dryRun, minConfidence |-> req.minConfidence,
                  stats |-> [runners |-> Len(runners), unlinked |-> Len(unlinked),
                             matched |-> Len(matches)],
                  matches |-> SortByConfidence(matches)]
  /\ pc' = "responded"
  /\ UNCHANGED <<db, req, runners, unlinked, ui, processed>>
  /\ UNCHANGED batchOnlyVars
  /\ UNCHANGED detectVars
  /\ UNCHANGED utilVars

NextRoute == GetStart \/ MatchToken \/ Respond

SpecRoute == InitRoute /\ [][NextRoute]_vars

\* ------------------------------------------------------------------ calls of the utilities
\* Longest string handed to a utility function
MaxStrLen == 3

\* Characters of the strings normalize is called on: lower case, upper case, a
\* digit, punctuation, a space and the Kelvin sign, whose lower case is "k"
NormalizeAlphabet == {"a", "B", "3", "-", " ", "U+212A"}

\* Characters of the strings levenshtein is called on
LevAlphabet == {"a", "b", "c"}

\* Characters of the three strings of which levenshtein is called on each pair
TriangleAlphabet == {"a", "b"}

\* Characters of the generated strings soundex is called on: two letters of one
\* code, a vowel, an h and a digit
SoundexAlphabet == {"P", "b", "e", "h", "7"}

\* Names soundex is called on besides the generated strings
SoundexWords ==
  {<<"R", "o", "b", "e", "r", "t">>,
   <<"R", "u", "p", "e", "r", "t">>,
   <<"T", "y", "m", "c", "z", "a", "k">>,
   <<"P", "f", "i", "s", "t", "e", "r">>,
   <<"A", "s", "h", "c", "r", "a", "f", "t">>,
   <<"P", "e", "p", "e">>}

\* Characters of the generated strings derepeat is called on: two letters and a
\* line feed
DerepeatAlphabet == {"p", "e", "U+000A"}

\* Strings derepeat is called on besides the generated ones
DerepeatWords == {<<"p", "e", "e", "e", "e", "p", "e">>, <<"p", "p", "p", "p", "e", "e", "e", "e">>}

\* A symbol of 190 letters: 189 times "a" and then the letter last
LongSymbol(last) == [i \in 1..190 |-> IF i = 190 THEN last ELSE "a"]

\* Symbols fuzzyMatch is called on
FuzzySymbols ==
  {<<"P", "E", "P", "E">>, <<"P", "E", "P", "O">>, <<"P", "E", "P", "E", "S">>, <<"P", "E", "-", "P", "E", "S">>, <<"P", "E", "P">>,
   <<"D", "O", "G", "E", "C", "O", "I", "N">>, <<"D", "O", "G", "E", "K", "O", "I", "N">>, <<"D", "O", "G", "E", "C", "O", "I", "N", "S">>, LongSymbol("a"), LongSymbol("b")}

UtilCalls ==
  {[fn |-> "normalize", a |-> s, b |-> <<>>, c |-> <<>>] :
     s \in SeqsUpTo(NormalizeAlphabet, MaxStrLen)}
    \cup
  {[fn |-> "levenshtein", a |-> s, b |-> t, c |-> <<>>] :
     s \in SeqsUpTo(LevAlphabet, MaxStrLen), t \in SeqsUpTo(LevAlphabet, MaxStrLen)}
    \cup
  {[fn |-> "soundex", a |-> s, b |-> <<>>, c |-> <<>>] :
     s \in SeqsUpTo(SoundexAlphabet, MaxStrLen) \cup SoundexWords}
    \cup
  {[fn |-> "derepeat", a |-> s, b |-> <<>>, c |-> <<>>] :
     s \in SeqsUpTo(DerepeatAlphabet, MaxStrLen) \cup DerepeatWords}
    \cup
  {[fn |-> "fuzzy", a |-> s, b |-> t, c |-> <<>>] : s \in FuzzySymbols, t \in FuzzySymbols}
    \cup
  {[fn |-> "levenshtein3", a |-> s, b |-> t, c |-> u] :
     s \in SeqsUpTo(TriangleAlphabet, MaxStrLen), t \in SeqsUpTo(TriangleAlphabet, MaxStrLen),
     u \in SeqsUpTo(TriangleAlphabet, MaxStrLen)}

InitUtil ==
  /\ call \in UtilCalls
  /\ rets = <<>>
  /\ IdleDetect
  /\ IdleBatch
  /\ IdleRoute

\* normalize(str)
Normalize ==
  /\ call.fn = "normalize"
  /\ rets = <<>>
  /\ rets' = <<normalize(call.a)>>
  /\ UNCHANGED call
  /\ UNCHANGED detectVars
  /\ UNCHANGED batchVars
  /\ UNCHANGED routeVars

\* normalize called on the string it returned
NormalizeAgain ==
  /\ call.fn = "normalize"
  /\ Len(rets) = 1
  /\ rets' = Append(rets, normalize(rets[1]))
  /\ UNCHANGED call
  /\ UNCHANGED detectVars
  /\ UNCHANGED batchVars
  /\ UNCHANGED routeVars

\* levenshtein(a, b)
Levenshtein ==
  /\ call.fn = "levenshtein"
  /\ rets = <<>>
  /\ rets' = <<levenshtein(call.a, call.b)>>
  /\ UNCHANGED call
  /\ UNCHANGED detectVars
  /\ UNCHANGED batchVars
  /\ UNCHANGED routeVars

\* levenshtein(b, a), the same two strings in the other order
LevenshteinSwapped ==
  /\ call.fn = "levenshtein"
  /\ Len(rets) = 1
  /\ rets' = Append(rets, levenshtein(call.b, call.a))
  /\ UNCHANGED call
  /\ UNCHANGED detectVars
  /\ UNCHANGED batchVars
  /\ UNCHANGED routeVars

\* levenshtein(a, c), levenshtein(a, b) and levenshtein(b, c) of three strings
LevenshteinThree ==
  /\ call.fn = "levenshtein3"
  /\ rets = <<>>
  /\ rets' = <<levenshtein(call.a, call.c), levenshtein(call.a, call.b),
               levenshtein(call.b, call.c)>>
  /\ UNCHANGED call
  /\ UNCHANGED detectVars
  /\ UNCHANGED batchVars
  /\ UNCHANGED routeVars

\* soundex(str)
Soundex ==
  /\ call.fn = "soundex"
  /\ rets = <<>>
  /\ rets' = <<soundex(call.a)>>
  /\ UNCHANGED call
  /\ UNCHANGED detectVars
  /\ UNCHANGED batchVars
  /\ UNCHANGED routeVars

\* derepeat(str)
Derepeat ==
  /\ call.fn = "derepeat"
  /\ rets = <<>>
  /\ rets' = <<derepeat(call.a)>>
  /\ UNCHANGED call
  /\ UNCHANGED detectVars
  /\ UNCHANGED batchVars
  /\ UNCHANGED routeVars

\* derepeat called on the string it returned
DerepeatAgain ==
  /\ call.fn = "derepeat"
  /\ Len(rets) = 1
  /\ rets' = Append(rets, derepeat(rets[1]))
  /\ UNCHANGED call
  /\ UNCHANGED detectVars
  /\ UNCHANGED batchVars
  /\ UNCHANGED routeVars

\* fuzzyMatch(runnerSymbol, tokenSymbol)
FuzzyMatch ==
  /\ call.fn = "fuzzy"
  /\ rets = <<>>
  /\ rets' = <<fuzzyMatch(call.a, call.b)>>
  /\ UNCHANGED call
  /\ UNCHANGED detectVars
  /\ UNCHANGED batchVars
  /\ UNCHANGED routeVars

NextUtil ==
  \/ Normalize
  \/ NormalizeAgain
  \/ Levenshtein
  \/ LevenshteinSwapped
  \/ LevenshteinThree
  \/ Soundex
  \/ Derepeat
  \/ DerepeatAgain
  \/ FuzzyMatch

SpecUtil == InitUtil /\ [][NextUtil]_vars

\* ------------------------------------------------------------------ properties
Called == full # Pending

rSymN == normalize(args.runnerSymbol)
tSymN == normalize(args.tokenSymbol)

MatchedMethods == {results[i].method : i \in {k \in DOMAIN results : results[k].matched}}

IsPair(rn, rs, tn, ts) ==
  /\ args.runnerName = rn
  /\ args.runnerSymbol = rs
  /\ args.tokenName = tn
  /\ args.tokenSymbol = ts

\* C1: when runner and candidate are the same (name, symbol), detectDerivative
\* returns isDerivative = false and none of the twelve methods reports a match.
C1_SelfExclusion ==
  (Called /\ args.runnerName = args.tokenName /\ args.runnerSymbol = args.tokenSymbol)
    => (~full.isDerivative /\ MatchedMethods = {})

\* C2: findDerivatives never holds or returns a match whose token id equals its
\* runner id, and detectDerivative is never called on a pair with equal ids.
C2_BatchSelfExclusion ==
  /\ \A p \in compared : p[1] # p[2]
  /\ \A i \in DOMAIN matches : matches[i].token.id # matches[i].runner.id
  /\ bestMatch # Null => bestMatch.token.id # bestMatch.runner.id

\* a finished call whose lists share a token that was matched to another runner
C2_Witness ==
  /\ pc = "done"
  /\ \E i \in DOMAIN matches :
       /\ \E k \in DOMAIN runners : runners[k].id = matches[i].token.id
       /\ matches[i].runner.id # matches[i].token.id

\* C3: when the normalized runner symbol has length >= 3, differs from the
\* normalized candidate symbol and is a substring of it, detectDerivative reports a
\* derivative with bestMethod direct, pattern or boundary and confidence >= 90.
C3_DirectContainment ==
  (Called /\ Len(rSymN) >= 3 /\ rSymN # tSymN /\ Includes(tSymN, rSymN))
    => /\ full.isDerivative
       /\ full.bestMethod \in {"direct", "pattern", "boundary"}
       /\ full.confidence >= 90

\* the runner symbol strictly inside the candidate symbol: PEPE in SPEPEX
C3_Witness ==
  /\ Called
  /\ IsPair(Pool[1].name, Pool[1].symbol, Pool[27].name, Pool[27].symbol)
  /\ full.bestMethod = "direct"

\* the leet decoding of the candidate symbol as the claim states it
LeetDecoded(symbol) == normalize(deleet(toLowerCase(symbol)))

\* C4: when the normalized runner symbol has length >= 3, differs from the
\* normalized candidate symbol and equals the leet-decoded, normalized candidate
\* symbol, detectDerivative reports a derivative with confidence >= 80 and leet is
\* among allMatches; for ("Pepe", "PEPE", "P3P3 Coin", "P3P3") bestMethod is leet
\* or misspelling.
C4_LeetNormalization ==
  /\ (Called /\ Len(rSymN) >= 3 /\ rSymN # tSymN /\ rSymN = LeetDecoded(args.tokenSymbol))
       => /\ full.isDerivative
          /\ full.confidence >= 80
          /\ \E i \in DOMAIN full.allMatches : full.allMatches[i].method = "leet"
  /\ (Called /\ IsPair(Pool[1].name, Pool[1].symbol, Pool[3].name, Pool[3].symbol))
       => full.bestMethod \in {"leet", "misspelling"}

C4_Witness ==
  /\ Called
  /\ IsPair(Pool[1].name, Pool[1].symbol, Pool[3].name, Pool[3].symbol)
  /\ full.isDerivative
  /\ "leet" \in MatchedMethods

\* C5: with a runner whose normalized symbol has length 1, directMatch,
\* patternMatch and wordBoundaryMatch do not match, whatever the candidate.
C5_ShortSymbolGuard ==
  (Called /\ Len(rSymN) = 1)
    => /\ MatchedMethods \cap {"direct", "pattern", "boundary"} = {}
       /\ \A i \in DOMAIN full.allMatches :
            full.allMatches[i].method \notin {"direct", "pattern", "boundary"}

\* runner symbol X against the candidate symbol XYZABC that starts with it
C5_Witness ==
  /\ Called
  /\ IsPair(Pool[4].name, Pool[4].symbol, Pool[5].name, Pool[5].symbol)
  /\ StartsWith(tSymN, rSymN)

MatchedConfidences(list) == {list[i].confidence : i \in {k \in DOMAIN list : list[k].matched}}
MatchedCount(list) == Cardinality({k \in DOMAIN list : list[k].matched})
TopConfidence(list) ==
  CHOOSE c \in MatchedConfidences(list) : \A o \in MatchedConfidences(list) : o <= c

\* C6: of two lists of method results with the same top confidence, the one with
\* at least as many matched methods gets a final confidence at least as high.
C6_BoostMonotone ==
  (/\ Called
   /\ MatchedCount(results) >= 1
   /\ MatchedCount(resultsB) >= MatchedCount(results)
   /\ TopConfidence(resultsB) = TopConfidence(results))
    => fullB.confidence >= full.confidence

\* one method at 90 against four methods with top confidence 90
C6_Witness ==
  /\ Called
  /\ MatchedCount(results) = 1
  /\ MatchedCount(resultsB) = 4
  /\ TopConfidence(results) = 90
  /\ TopConfidence(resultsB) = 90
  /\ full.confidence = 90
  /\ fullB.confidence = 98

C10_NoMatchResult ==
  /\ Called =>
       /\ full.isDerivative <=> MatchedMethods # {}
       /\ MatchedMethods = {} =>
            full = [isDerivative |-> FALSE, bestMethod |-> "none", confidence |-> 0,
                    details |-> <<>>, allMatches |-> <<>>, methodCount |-> 0]
  /\ (Called /\ IsPair(Pool[6].name, Pool[6].symbol, Pool[7].name, Pool[7].symbol))
       => ~full.isDerivative /\ full.confidence = 0

C10_Witness ==
  /\ Called
  /\ IsPair(Pool[6].name, Pool[6].symbol, Pool[7].name, Pool[7].symbol)
  /\ full.bestMethod = "none"

\* the detectDerivative results of a candidate against the runners with another id
NonSelfResults(token) ==
  {detectDerivative(runners[k].name, runners[k].symbol, token.name, token.symbol) :
     k \in {j \in DOMAIN runners : runners[j].id # token.id}}

\* a runner with another id is reported as a derivative's parent at the threshold
Qualifies(token, minConfidence) ==
  \E r \in NonSelfResults(token) : r.isDerivative /\ r.confidence >= minConfidence

\* C8: with the external comparison off, a pass at a threshold m2 >= the
\* threshold of the request returns no more matches than the request did, and
\* each of them is among the request's matches with the same runner and confidence.
C8_ThresholdMonotone ==
  (pc = "responded" /\ ~req.useAI)
    => \A m2 \in {m \in RouteThresholds : m >= req.minConfidence} :
         LET higher == DeterministicPass(runners, unlinked, m2)
         IN /\ Len(higher) <= Len(response.matches)
            /\ \A i \in DOMAIN higher : \E j \in DOMAIN response.matches :
                 response.matches[j] = higher[i]

\* a request at 72 that returned three matches, of which one survives at 93
C8_Witness ==
  /\ pc = "responded"
  /\ ~req.useAI
  /\ req.minConfidence = 72
  /\ Len(response.matches) = 3
  /\ Len(DeterministicPass(runners, unlinked, 93)) = 1

\* C9 as stated: with the external comparison off, a candidate is emitted exactly
\* when the best post-boost confidence over the runners with another id meets or
\* exceeds minConfidence.
C9_EmitsIffBestMeetsThreshold ==
  (pc = "responded" /\ ~req.useAI)
    => \A i \in DOMAIN unlinked :
         (unlinked[i].id \in processed)
           <=> (\E r \in NonSelfResults(unlinked[i]) :
                  /\ \A o \in NonSelfResults(unlinked[i]) : o.confidence <= r.confidence
                  /\ r.confidence >= req.minConfidence)

\* C9 amended: a candidate is emitted exactly when a runner with another id is
\* reported as a derivative with post-boost confidence >= minConfidence or, with
\* the external comparison on, that comparison supplied the match; every returned
\* match has confidence >= minConfidence, one match per emitted candidate.
C9_EmitsIffDerivativeMeetsThreshold ==
  pc = "responded"
    => /\ \A j \in DOMAIN response.matches :
            response.matches[j].confidence >= req.minConfidence
       /\ Len(response.matches) = Cardinality(processed)
       /\ \A i \in DOMAIN unlinked :
            /\ Qualifies(unlinked[i], req.minConfidence) => unlinked[i].id \in processed
            /\ (unlinked[i].id \in processed /\ ~Qualifies(unlinked[i], req.minConfidence))
                 => /\ req.useAI
                    /\ \E j \in DOMAIN response.matches :
                         /\ response.matches[j].method = "ai"
                         /\ response.matches[j].derivative = unlinked[i].symbol

\* a request at 93 without the external comparison that emitted one candidate and
\* omitted another that does match a runner, below the threshold
C9_Witness ==
  /\ pc = "responded"
  /\ ~req.useAI
  /\ req.minConfidence = 93
  /\ Len(response.matches) = 1
  /\ \E i \in DOMAIN unlinked :
       /\ unlinked[i].id \notin processed
       /\ Qualifies(unlinked[i], 72)

\* the bonus the agreement of k methods earns
AgreementBonus(k) == IF k >= 4 THEN 8 ELSE IF k = 3 THEN 5 ELSE IF k = 2 THEN 2 ELSE 0

\* C11: when k >= 1 methods matched with highest method confidence c, the final
\* confidence is min(99, c + b) with b = 8, 5, 2, 0 for k >= 4, k = 3, k = 2,
\* k = 1, and the final confidence never exceeds 99.
C11_AgreementBonus ==
  Called =>
    /\ full.confidence <= 99
    /\ MatchedCount(results) >= 1 =>
         /\ full.methodCount = MatchedCount(results)
         /\ full.confidence =
              Min2(99, TopConfidence(results) + AgreementBonus(MatchedCount(results)))

\* four or more methods with top confidence 98, clamped to 99
C11_Witness ==
  /\ Called
  /\ MatchedCount(results) >= 4
  /\ TopConfidence(results) = 98
  /\ full.confidence = 99

\* the number of places a token takes in a list
Occurrences(list, x) == Cardinality({i \in DOMAIN list : list[i] = x})

\* C12: findDerivatives returns one match for each entry of the candidate list
\* that has a runner with another id reported as a derivative's parent and none for
\* the other entries; the runner of a match attains the highest post-boost
\* confidence among the candidate's runners with another id, and its method,
\* confidence and methodCount are those detectDerivative returns for the pair.
C12_OneMatchPerCandidate ==
  pc = "done" =>
    /\ \A j \in DOMAIN matches : Occurrences(tokens, matches[j].token) >= 1
    /\ \A i \in DOMAIN tokens :
         Cardinality({j \in DOMAIN matches : matches[j].token = tokens[i]})
           = IF \E r \in NonSelfResults(tokens[i]) : r.isDerivative
             THEN Occurrences(tokens, tokens[i])
             ELSE 0
    /\ \A j \in DOMAIN matches :
         LET m == matches[j]
         IN \E r \in {detectDerivative(m.runner.name, m.runner.symbol,
                                       m.token.name, m.token.symbol)} :
              /\ Occurrences(runners, m.runner) >= 1
              /\ m.runner.id # m.token.id
              /\ r.isDerivative
              /\ m.method = r.bestMethod
              /\ m.confidence = r.confidence
              /\ m.methodCount = r.methodCount
              /\ \A o \in NonSelfResults(m.token) : o.confidence <= m.confidence

\* two candidates of which one has no parent and the other is matched to the
\* second of two runners that both qualify, the one with the higher confidence
C12_Witness ==
  /\ pc = "done"
  /\ Len(tokens) = 2
  /\ Len(runners) = 2
  /\ Len(matches) = 1
  /\ matches[1].token.id = "a"
  /\ runners[1].id = "b"
  /\ matches[1].runner.id = "c"
  /\ matches[1].confidence = 90

\* C13: the list findDerivatives returns is sorted by confidence, highest first,
\* whatever the order of the candidates.
C13_SortedByConfidence ==
  pc = "done" =>
    \A j \in DOMAIN matches : \A k \in DOMAIN matches :
      j < k => matches[j].confidence >= matches[k].confidence

\* two matches returned in the reverse of the order of their candidates
C13_Witness ==
  /\ pc = "done"
  /\ Len(tokens) = 2
  /\ Len(matches) = 2
  /\ matches[1].token = tokens[2]
  /\ matches[2].token = tokens[1]
  /\ matches[1].confidence > matches[2].confidence

\* C14: normalize returns only characters of [a-z0-9], and normalize applied to
\* its own result returns that result.
C14_NormalizeIdempotent ==
  (call # Null /\ call.fn = "normalize") =>
    /\ Len(rets) >= 1 => \A i \in DOMAIN rets[1] : rets[1][i] \in Lowers \cup Digits
    /\ Len(rets) = 2 => rets[2] = rets[1]

\* a string with an upper-case letter, punctuation and a letter that is kept
C14_Witness ==
  /\ call # Null
  /\ call.fn = "normalize"
  /\ call.a = <<"B", "-", "a">>
  /\ rets = << <<"b", "a">>, <<"b", "a">> >>

\* C15: levenshtein(a, b) = levenshtein(b, a), and levenshtein(a, a) = 0.
C15_LevenshteinSymmetric ==
  (call # Null /\ call.fn = "levenshtein") =>
    /\ Len(rets) = 2 => rets[1] = rets[2]
    /\ (Len(rets) >= 1 /\ call.a = call.b) => rets[1] = 0

\* two strings of different lengths at distance 3, in both orders
C15_Witness ==
  /\ call # Null
  /\ call.fn = "levenshtein"
  /\ call.a = <<"a", "b">>
  /\ call.b = <<"b", "c", "a">>
  /\ rets = <<3, 3>>

\* the ten methods that compare the symbols; theme and keyword read the names
SymbolMethods == {MethodOrder[i] : i \in 1..10}

\* C16: for all strings, empty, too short and identical ones included, every
\* method returns a result and so does detectDerivative, none throws; with a
\* runner symbol that is empty or of one character the methods that compare the
\* symbols return matched = false with confidence 0.
C16_NoMethodThrows ==
  Called =>
    /\ Len(results) = Len(MethodOrder)
    /\ \A i \in DOMAIN results :
         /\ results[i] # TypeError
         /\ results[i].method = MethodOrder[i]
         /\ results[i].matched \in BOOLEAN
         /\ results[i].confidence \in 0..99
         /\ ~results[i].matched => results[i].confidence = 0
    /\ full # Thrown
    /\ full.bestMethod \in Range(MethodOrder) \cup {"none"}
    /\ Len(rSymN) < 2 =>
         \A i \in DOMAIN results :
           results[i].method \in SymbolMethods
             => ~results[i].matched /\ results[i].confidence = 0

\* the empty runner symbol against a candidate with a symbol of letters
C16_Witness ==
  /\ Called
  /\ args.runnerSymbol = <<>>
  /\ args.runnerName = <<>>
  /\ Len(Keep(args.tokenSymbol, Letters)) >= 3
  /\ full.bestMethod = "none"

\* C17: a record with a missing symbol is rejected before the comparison loop
\* starts: no pair is ever compared in a call whose lists hold such a record, and
\* the call does not fail after comparisons were made.
C17_RejectedAtBoundary ==
  ((\E k \in DOMAIN runners : ~HasSymbol(runners[k]))
     \/ (\E i \in DOMAIN tokens : ~HasSymbol(tokens[i])))
    => (compared = {} /\ pc # "thrown")

\* C18: the match of a candidate depends on that candidate and the runner list
\* only: a call with the candidates in the reverse order, in which the candidate
\* that came first comes last, returns the same matches.
C18_CandidateIndependence ==
  (pass = 2 /\ pc = "done") =>
    /\ Len(matches) = Len(prev)
    /\ \A m \in Range(matches) \cup Range(prev) :
         Occurrences(matches, m) = Occurrences(prev, m)

\* two candidates matched at the same confidence, returned in the other order by
\* the call that took them in the other order
C18_Witness ==
  /\ pass = 2
  /\ pc = "done"
  /\ Len(matches) = 2
  /\ matches[1].token # matches[2].token
  /\ prev = <<matches[2], matches[1]>>

\* C19: whenever the normalized runner symbol equals the normalized candidate
\* symbol, whatever the two names, each of the twelve methods returns
\* matched = false.
C19_EveryMethodRejectsSameSymbol ==
  (Called /\ rSymN = tSymN) => \A i \in DOMAIN results : ~results[i].matched

\* the methods of a set that matched none
NoneMatched(methods) == MatchedMethods \cap methods = {}

\* C20: with a normalized runner symbol shorter than 3 characters direct,
\* misspelling, phonetic, leet, reverse and substring do not match; shorter than 4,
\* ngram and fuzzy do not match; shorter than 2, pattern and boundary do not
\* match; and theme and keyword too reject a runner symbol below a minimum length,
\* taken here as the least one there can be, a symbol with no character left.
C20_MinimumSymbolLength ==
  Called =>
    /\ Len(rSymN) < 3 =>
         NoneMatched({"direct", "misspelling", "phonetic", "leet", "reverse", "substring"})
    /\ Len(rSymN) < 4 => NoneMatched({"ngram", "fuzzy"})
    /\ Len(rSymN) < 2 => NoneMatched({"pattern", "boundary"})
    /\ Len(rSymN) < 1 => NoneMatched({"theme", "keyword"})

\* the confidences a method's positive result may carry
ConfidenceRange(method) ==
  CASE method = "direct" -> 95..98
    [] method = "pattern" -> {94}
    [] method = "boundary" -> 90..92
    [] method = "misspelling" -> 78..90
    [] method = "phonetic" -> 80..85
    [] method = "leet" -> 84..88
    [] method = "ngram" -> 75..95
    [] method = "fuzzy" -> 70..95
    [] method = "reverse" -> 75..82
    [] method = "substring" -> 70..90
    [] method = "theme" -> {72}
    [] method = "keyword" -> {78}

\* C21: the confidence of a method's result is an integer, 0 when the method
\* did not match and inside the method's range when it did, so that every
\* positive result is within 70..99.
C21_ConfidenceRanges ==
  Called =>
    \A i \in DOMAIN results :
      /\ results[i].confidence \in Int
      /\ ~results[i].matched => results[i].confidence = 0
      /\ results[i].matched =>
           /\ results[i].confidence \in ConfidenceRange(results[i].method)
           /\ results[i].confidence \in 70..99

\* DOGECOIN against DOGECOINS: ngram, fuzzy and substring match on their scales
C21_Witness ==
  /\ Called
  /\ IsPair(Pool[13].name, Pool[13].symbol, Pool[14].name, Pool[14].symbol)
  /\ \E i \in DOMAIN results :
       results[i].method = "ngram" /\ results[i].matched /\ results[i].confidence = 92
  /\ \E i \in DOMAIN results :
       results[i].method = "fuzzy" /\ results[i].matched /\ results[i].confidence = 84
  /\ \E i \in DOMAIN results :
       results[i].method = "substring" /\ results[i].matched /\ results[i].confidence = 90

\* The unit-cost edit distance by its definition: the cheapest of removing the
\* first character of a, inserting the first character of b, and keeping or
\* substituting the first character
RECURSIVE EditDistance(_, _)
EditDistance(a, b) ==
  IF a = <<>> THEN Len(b)
  ELSE IF b = <<>> THEN Len(a)
  ELSE Min3(EditDistance(Tail(a), b) + 1,
            EditDistance(a, Tail(b)) + 1,
            EditDistance(Tail(a), Tail(b)) + (IF Head(a) = Head(b) THEN 0 ELSE 1))

\* C22: levenshtein(a, b) is the unit-cost edit distance of a and b, empty
\* strings included, and levenshtein(a, c) <= levenshtein(a, b) + levenshtein(b, c).
C22_LevenshteinIsEditDistance ==
  /\ (call # Null /\ call.fn = "levenshtein" /\ Len(rets) >= 1)
       => rets[1] = EditDistance(call.a, call.b)
  /\ (call # Null /\ call.fn = "levenshtein3" /\ rets # <<>>)
       => /\ rets[1] = EditDistance(call.a, call.c)
          /\ rets[1] <= rets[2] + rets[3]

\* three strings for which the inequality is an equality: aa, ab, bb
C22_Witness ==
  /\ call # Null
  /\ call.fn = "levenshtein3"
  /\ call.a = <<"a", "a">>
  /\ call.b = <<"a", "b">>
  /\ call.c = <<"b", "b">>
  /\ rets = <<2, 1, 1>>

\* Standard Soundex from the second letter on: a letter with the code of the
\* letter coded before it is skipped, a vowel or a y between two letters ends
\* that, an h or a w does not
RECURSIVE StandardSoundexLoop(_, _, _, _)
StandardSoundexLoop(s, i, result, prevCode) ==
  IF i > Len(s) \/ Len(result) = 4 THEN result
  ELSE LET code == SoundexCode(s[i])
       IN IF code = ""
          THEN StandardSoundexLoop(s, i + 1, result,
                                   IF s[i] \in {"H", "W"} THEN prevCode ELSE "")
          ELSE StandardSoundexLoop(s, i + 1,
                                   IF code # prevCode THEN Append(result, code) ELSE result,
                                   code)

StandardSoundex(str) ==
  LET s == Keep(toUpperCase(str), Uppers)
  IN IF s = <<>> THEN <<>>
     ELSE Slice(StandardSoundexLoop(s, 2, <<s[1]>>, SoundexCode(s[1])) \o <<"0", "0", "0">>,
                0, 4)

\* C23: soundex(s) is the standard Soundex code of s, in which letters of one
\* code separated by a vowel are coded separately, zero-padded or truncated to
\* four characters, and is empty only when s has no letter.
C23_SoundexIsStandard ==
  (call # Null /\ call.fn = "soundex" /\ rets # <<>>) =>
    /\ rets[1] = StandardSoundex(call.a)
    /\ rets[1] = <<>> <=> Keep(call.a, Letters) = <<>>
    /\ rets[1] # <<>> => Len(rets[1]) = 4

\* the letters of the first word of a name
FirstWordLetters(name) == Keep(SplitOn(name, Whitespace, <<>>)[1], Letters)

\* the first words of the two names sound alike: four letters or more each, the
\* same first letter, and equal Soundex or equal Metaphone codes
NamesSoundAlike ==
  LET rNameWord == FirstWordLetters(args.runnerName)
      tNameWord == FirstWordLetters(args.tokenName)
  IN /\ Len(rNameWord) >= 4
     /\ Len(tNameWord) >= 4
     /\ LowerChar(rNameWord[1]) = LowerChar(tNameWord[1])
     /\ (soundex(rNameWord) = soundex(tNameWord)
           \/ metaphone(rNameWord) = metaphone(tNameWord))

\* C24: whenever the first words of the two names sound alike, phoneticMatch
\* matches with confidence 80 or more, also when a symbol has fewer than three
\* letters; pairs of one symbol, which every method is to reject, are set aside.
C24_NamesCheckedIndependently ==
  (/\ Called
   /\ toLowerCase(Keep(args.runnerSymbol, Letters)) # toLowerCase(Keep(args.tokenSymbol, Letters))
   /\ NamesSoundAlike)
    => \E i \in DOMAIN results :
         /\ results[i].method = "phonetic"
         /\ results[i].matched
         /\ results[i].confidence >= 80

\* the themes the runner and the candidate of the call both belong to
SharedThemes ==
  Range(getThemes(args.runnerName \o <<" ">> \o args.runnerSymbol))
    \cap Range(getThemes(args.tokenName \o <<" ">> \o args.tokenSymbol))

\* the runner's name and symbol hold the first keyword of a theme
RunnerIsCanonical(theme) ==
  Includes(toLowerCase(args.runnerName \o <<" ">> \o args.runnerSymbol), MainKeyword(theme))

\* C25: themeMatch matches only if the runner and the candidate share a theme
\* whose first keyword the runner's own text contains; a runner that belongs to
\* the shared themes through other keywords only gets no theme match.
C25_ThemeGate ==
  Called =>
    /\ "theme" \in MatchedMethods => \E t \in SharedThemes : RunnerIsCanonical(t)
    /\ (SharedThemes # {} /\ \A t \in SharedThemes : ~RunnerIsCanonical(t))
         => "theme" \notin MatchedMethods

\* the runner Pepo Frog/PEPO, of the theme pepe through "pep" and "frog" only,
\* against Pepe/PEPE
C25_Witness ==
  /\ Called
  /\ IsPair(Pool[10].name, Pool[10].symbol, Pool[1].name, Pool[1].symbol)
  /\ "pepe" \in SharedThemes
  /\ ~RunnerIsCanonical("pepe")
  /\ "theme" \notin MatchedMethods

\* a string with its runs of three or more equal characters cut to two: the
\* characters that do not repeat the two characters before them, in their order
RunsCutToTwo(s) ==
  LET kept == {i \in DOMAIN s : ~(i >= 3 /\ s[i] = s[i - 1] /\ s[i] = s[i - 2])}
      Nth(k) == CHOOSE i \in kept : Cardinality({j \in kept : j < i}) = k - 1
  IN [k \in 1..Cardinality(kept) |-> s[Nth(k)]]

\* C26: derepeat cuts every run of three or more identical characters to two
\* and leaves shorter runs alone ("peeeepe" becomes "peepe"), its result never
\* has three identical characters in a row, and derepeat of its result is that
\* result.
C26_DerepeatCutsRunsToTwo ==
  (call # Null /\ call.fn = "derepeat" /\ rets # <<>>) =>
    /\ rets[1] = RunsCutToTwo(call.a)
    /\ \A i \in DOMAIN rets[1] :
         ~(i >= 3 /\ rets[1][i] = rets[1][i - 1] /\ rets[1][i] = rets[1][i - 2])
    /\ call.a = <<"p", "e", "e", "e", "e", "p", "e">> => rets[1] = <<"p", "e", "e", "p", "e">>
    /\ Len(rets) = 2 => rets[2] = rets[1]

\* the fuzzy match of the call is decided by the claimed condition: the
\* normalized symbols differ, both have at least 4 characters, and five times
\* their distance is at most the longer length
FuzzyDecidedAsClaimed ==
  LET rSym == normalize(call.a)
      tSym == normalize(call.b)
  IN /\ rets[1].method = "fuzzy"
     /\ rets[1].matched <=>
          /\ rSym # tSym
          /\ Len(rSym) >= 4
          /\ Len(tSym) >= 4
          /\ 5 * levenshtein(rSym, tSym) <= Max2(Len(rSym), Len(tSym))
     /\ Len(tSym) < 4 => ~rets[1].matched
     /\ ~rets[1].matched => rets[1].confidence = 0

\* C27 as stated: fuzzyMatch matches exactly under the claimed condition, never
\* a candidate symbol shorter than 4, and a match has a confidence below 95.
C27_FuzzyBelow95 ==
  (call # Null /\ call.fn = "fuzzy" /\ rets # <<>>) =>
    /\ FuzzyDecidedAsClaimed
    /\ rets[1].matched => rets[1].confidence < 95

\* C27, amended: fuzzyMatch matches exactly under the claimed condition, never
\* a candidate symbol shorter than 4, and a match has a confidence from 76 to
\* 95, below 95 when the longer symbol has fewer than 190 characters.
C27_FuzzyAtMost95 ==
  (call # Null /\ call.fn = "fuzzy" /\ rets # <<>>) =>
    /\ FuzzyDecidedAsClaimed
    /\ rets[1].matched =>
         /\ rets[1].confidence \in 76..95
         /\ Max2(Len(normalize(call.a)), Len(normalize(call.b))) < 190 => rets[1].confidence < 95

\* fuzzyMatch gives 95 to two symbols of 190 letters that differ in the last
C27_Witness ==
  /\ call # Null
  /\ call.fn = "fuzzy"
  /\ call.a = LongSymbol("a")
  /\ call.b = LongSymbol("b")
  /\ rets # <<>>
  /\ rets[1].matched
  /\ rets[1].confidence = 95

\* the runners already compared with the current candidate that were reported
\* as a derivative source, by position in the runners list
ReportedSoFar ==
  {k \in 1..(ri - 1) :
     /\ ~SameToken(runners[k], tokens[ti])
     /\ detectDerivative(runners[k].name, runners[k].symbol,
                         tokens[ti].name, tokens[ti].symbol).isDerivative}

ConfidenceOf(k) ==
  detectDerivative(runners[k].name, runners[k].symbol,
                   tokens[ti].name, tokens[ti].symbol).confidence

\* C28: while a candidate is being compared, the best match is the runner that
\* comes first in the runners list among those with the highest confidence so
\* far; a later runner with the same confidence does not replace it.
C28_FirstOfHighestKept ==
  (pc = "loop" /\ ti <= Len(tokens)) =>
    IF ReportedSoFar = {} THEN bestMatch = Null
    ELSE LET top == CHOOSE c \in {ConfidenceOf(k) : k \in ReportedSoFar} :
                      \A k \in ReportedSoFar : ConfidenceOf(k) <= c
             first == CHOOSE k \in ReportedSoFar :
                        /\ ConfidenceOf(k) = top
                        /\ \A l \in ReportedSoFar : ConfidenceOf(l) = top => k <= l
         IN /\ bestMatch # Null
            /\ bestMatch.confidence = top
            /\ bestMatch.runner = runners[first]
            /\ bestMatch.token = tokens[ti]

\* Pepe/PEPE with id a is kept for Baby Pepe after the Pepe/PEPE with id e, of
\* the same confidence 99, was compared second
C28_Witness ==
  /\ pc = "loop"
  /\ ti <= Len(tokens)
  /\ tokens[ti].id = "b"
  /\ Len(runners) = 2
  /\ runners[1].id = "a"
  /\ runners[2].id = "e"
  /\ ri = 3
  /\ ReportedSoFar = {1, 2}
  /\ ConfidenceOf(1) = ConfidenceOf(2)
  /\ bestMatch # Null
  /\ bestMatch.runner.id = "a"

\* the method's result among the results of the call is a match
MethodMatched(method) ==
  \E i \in DOMAIN results : results[i].method = method /\ results[i].matched

\* C29: when directMatch matches, substringMatch matches too, with the whole
\* runner symbol as longest common substring and so with confidence 90; a
\* direct match then never stands alone: methodCount is at least 2 and the
\* final confidence is at least 97, never the 95 or 98 of directMatch.
C29_DirectImpliesSubstring ==
  (Called /\ MethodMatched("direct")) =>
    /\ \E i \in DOMAIN results :
         /\ results[i].method = "substring"
         /\ results[i].matched
         /\ results[i].confidence = 90
    /\ lcs(rSymN, normalize(args.tokenSymbol)) = Len(rSymN)
         \/ lcs(rSymN, normalize(args.tokenName)) = Len(rSymN)
    /\ full.isDerivative
    /\ full.methodCount >= 2
    /\ full.confidence >= 97
    /\ full.confidence \notin {95, 98}

\* directMatch matches at 95 through the candidate's name, substringMatch is
\* the only other method that matches, and the final confidence is 97
C29_Witness ==
  /\ Called
  /\ \E i \in DOMAIN results :
       results[i].method = "direct" /\ results[i].matched /\ results[i].confidence = 95
  /\ MatchedMethods = {"direct", "substring"}
  /\ full.methodCount = 2
  /\ full.confidence = 97

\* the positions, in invocation order, of the matched results with the highest
\* confidence
TopPositions ==
  {i \in DOMAIN results : results[i].matched /\ results[i].confidence = TopConfidence(results)}

\* C30: allMatches holds exactly the matched results, highest confidence first,
\* bestMethod is the method of its first element, and of several matched
\* methods with the highest confidence the earliest in the invocation order is
\* the bestMethod.
C30_BestMethodEarliestOfTop ==
  (Called /\ full.isDerivative) =>
    /\ [i \in DOMAIN results |-> results[i].method] = MethodOrder
    /\ Len(full.allMatches) = MatchedCount(results)
    /\ \A i \in DOMAIN results :
         results[i].matched <=> \E k \in DOMAIN full.allMatches : full.allMatches[k] = results[i]
    /\ \A k \in 1..(Len(full.allMatches) - 1) :
         full.allMatches[k].confidence >= full.allMatches[k + 1].confidence
    /\ full.bestMethod = full.allMatches[1].method
    /\ \E first \in TopPositions :
         /\ \A i \in TopPositions : first <= i
         /\ full.bestMethod = results[first].method

\* two methods share the highest confidence and the earlier one is reported
C30_Witness ==
  /\ Called
  /\ full.isDerivative
  /\ Cardinality(TopPositions) >= 2
  /\ \E i \in TopPositions :
       /\ full.bestMethod = results[i].method
       /\ \E j \in TopPositions : i < j

====
